---- MODULE Spec2Model ----
(***************************************************************************)
(* A model of postera's tshell module (src/src/tshell.ts): commands and    *)
(* their flattening, contexts and their merge, shells, tasks and the       *)
(* notifications posted to shell listeners; of its notifier module         *)
(* (src/src/notifier.ts); and of the channels and connections of its       *)
(* queue client (src/src/qio.ts).                                          *)
(***************************************************************************)
EXTENDS Integers, Sequences, FiniteSets, TLC

(***************************************************************************)
(* Bounds of the model.                                                    *)
(***************************************************************************)
\* Number of Cmd objects in the command table.
NumCmds == 3
\* Slack allowed to the flatten loop beyond one iteration per command, so
\* that a loop that fails to stop is observed rather than cut off.
IterSlack == 2
\* Number of properties an override context sets explicitly.
MaxOver == 2
\* Number of tasks created in one run.
MaxTasks == 1

VARIABLES
    cmds,       \* the Cmd objects: their prog and args properties
    fl,         \* the activation of flatten() for one invocation
    ctxH,       \* the ShellContext objects, by identity (index)
    over,       \* the additions passed to clone: <<>> or <<context>>
    cres,       \* the identity of the context clone returned, 0 before
    cuse,       \* the clone's objects shared with its base; changed since
    shells,     \* the ShellImpl objects, by identity (index)
    current,    \* the module variable current: the identity of a shell
    tasks,      \* the CmdTask objects with their JobInfo and promise
    tickQ,      \* the callbacks queued with process.nextTick
    seen,       \* per task and listener, the notifications delivered
    crashed,    \* an exception escaped a nextTick callback
    exited,     \* the last call of exit: its shell, code and exception
    stack,      \* the shell functions being executed, innermost last
    body,       \* per task, who issued it and where its function stands
    ret,        \* what the last call of result returned
    listenersVar,   \* Notifier.listenersVar: the listeners, in order
    hooks,      \* the calls of listeningStarted and listeningStopped
    nret,       \* what the last call on the notifier returned
    ncalls,     \* the number of calls made on the notifier
    thrown,     \* the exceptions calls have raised to their callers
    cl,         \* the activation of cmdline() for one command line
    channel,    \* the qio Channel object: its listeners and its ch
    connection, \* the qio Connection object: its listeners and its conn
    attempts,   \* the connect attempts in progress: connecting or waiting
    broker,     \* the broker's side: connections and channels it has open
    ran,        \* the operations given to Channel.open that have been run
    issued      \* the number of operations and listeners given to the channel

flattenVars == <<cmds, fl>>
ctxVars == <<ctxH, over, cres, cuse>>
cloneVars == <<over, cres, cuse>>
progVars == <<stack, body, ret>>
shellVars == <<shells, current, tasks, tickQ, seen, crashed, exited, progVars>>
notifierVars == <<listenersVar, hooks, nret, ncalls>>
callVars == <<thrown, cl>>
qioVars == <<channel, connection, attempts, broker, ran, issued>>
vars == <<cmds, fl, ctxH, over, cres, cuse,
          shells, current, tasks, tickQ, seen, crashed, exited,
          stack, body, ret, listenersVar, hooks, nret, ncalls, thrown,
          cl, channel, connection, attempts, broker, ran, issued>>

(***************************************************************************)
(* Commands (tshell.ts 163-219).                                           *)
(***************************************************************************)
CmdIds == 1..NumCmds

\* A program reference: a string (the program named name), another command
\* (cmd), or a shell function.
StrProg(n) == [k |-> "string", c |-> n]
CmdProg(i) == [k |-> "cmd", c |-> i]
FuncProg == [k |-> "func", c |-> 0]

\* The bound argument lists a command is created with: the strings are
\* tagged with the command that binds them, so that every concatenation
\* order gives a different vector.
BoundArgs(i) == {<<>>, <<10 * i, 10 * i + 1>>}

\* The argument lists given at the call.
CallArgs == {<<>>, <<1, 2>>}

\* cmd(prog, ...args): prog and args become properties of the function.
cmd(prog, args) == [prog |-> prog, hasArgs |-> TRUE, args |-> args]

\* subshell(body): prog is the body and args is left undefined.
subshell == [prog |-> FuncProg, hasArgs |-> FALSE, args |-> <<>>]

\* The Cmd objects a program can hold as object i: its prog property may
\* refer to any Cmd, since prog is an ordinary writable property.
CmdObjects(i) ==
    {cmd(StrProg(i), a) : a \in BoundArgs(i)}
    \cup {cmd(CmdProg(j), a) : j \in CmdIds, a \in BoundArgs(i)}
    \cup {subshell}

(***************************************************************************)
(* flatten (tshell.ts 971-991), one loop iteration per step.               *)
(***************************************************************************)
MaxIter == NumCmds + IterSlack

\* typeof p !== 'string' && p['args']
LoopCond(p) == p.k = "cmd" /\ cmds[p.c].hasArgs

RECURSIVE ConcatForward(_, _)
\* The lists concatenated in the order they were pushed.
ConcatForward(list, i) ==
    IF i = 0 THEN <<>> ELSE ConcatForward(list, i - 1) \o list[i]

RECURSIVE ConcatReversed(_, _)
\* for (i = list.length - 1; i >= 0; --i) job.args.push(...list[i])
ConcatReversed(list, i) ==
    IF i = 0 THEN <<>> ELSE list[i] \o ConcatReversed(list, i - 1)

FlattenIdle ==
    [pc |-> "idle", mode |-> "none", start |-> 0, x |-> <<>>, p |-> FuncProg,
     list |-> <<>>, visited |-> {}, iter |-> 0,
     prog |-> FuncProg, args |-> <<>>]

\* Entry to flatten(prog, args, job): list = args ? [args] : [], p = prog.
FlattenEnter(mode, start, x, prog, args, defined) ==
    [FlattenIdle EXCEPT !.pc = "loop", !.mode = mode, !.start = start,
                        !.x = x, !.p = prog,
                        !.list = IF defined THEN <<args>> ELSE <<>>]

\* A(x...): the command function calls promise(prog, args.concat(args2)).
InvokeDirect(a, x) ==
    /\ fl.pc = "idle"
    /\ cmds[a].hasArgs
    /\ fl' = FlattenEnter("direct", a, x, cmds[a].prog, cmds[a].args \o x, TRUE)
    /\ UNCHANGED <<cmds, ctxVars, shellVars, notifierVars, callVars, qioVars>>

\* exec(A, x...): current.task(A, args); execArgs leaves args undefined
\* when the argument list is empty.
InvokeExec(a, x) ==
    /\ fl.pc = "idle"
    /\ fl' = FlattenEnter("exec", a, x, CmdProg(a), x, x # <<>>)
    /\ UNCHANGED <<cmds, ctxVars, shellVars, notifierVars, callVars, qioVars>>

\* A push that puts the bound arguments ahead of the lists collected.
PushFront(list, args) == <<args>> \o list

\* list.push(c.args)
Push(list, args) == Append(list, args)

\* A visited set that never reports a command as seen.
VisitedHasNever(c) == FALSE

\* if (visited.has(c)) throw new Error('Command reference cycle')
VisitedHas(c) == c \in fl.visited

\* One iteration of the while loop.
FlattenLoop ==
    /\ fl.pc = "loop"
    /\ LoopCond(fl.p)
    /\ fl.iter < MaxIter
    /\ LET c == fl.p.c IN
        IF VisitedHas(c)
        THEN fl' = [fl EXCEPT !.pc = "cycle", !.iter = @ + 1]
        ELSE fl' = [fl EXCEPT !.visited = @ \cup {c},
                              !.list = Push(@, cmds[c].args),
                              !.p = cmds[c].prog,
                              !.iter = @ + 1]
    /\ UNCHANGED <<cmds, ctxVars, shellVars, notifierVars, callVars, qioVars>>

\* Loop exit: job.prog = p, job.args = the lists, last pushed first.
FlattenBuild ==
    /\ fl.pc = "loop"
    /\ ~LoopCond(fl.p)
    /\ fl' = [fl EXCEPT !.pc = "done", !.prog = fl.p,
                        !.args = ConcatReversed(fl.list, Len(fl.list))]
    /\ UNCHANGED <<cmds, ctxVars, shellVars, notifierVars, callVars, qioVars>>

\* No clone made: nothing shared, nothing changed.
NoUse == [shared |-> {}, changed |-> FALSE]

CtxIdle == ctxH = <<>> /\ over = <<>> /\ cres = 0 /\ cuse = NoUse

\* exit has not been called.
NoExit == [sh |-> 0, code |-> 0, raised |-> FALSE]

\* A notifier as constructed: listenersVar = [], nothing called.
NotifierIdle == listenersVar = <<>> /\ hooks = <<>> /\ nret = -1 /\ ncalls = 0

\* cmdline has not been called.
NoLine == [pc |-> "idle", prog |-> <<>>, argv |-> <<>>, parts |-> <<>>,
           line |-> <<>>]

\* No call has raised an exception.
CallIdle == thrown = <<>> /\ cl = NoLine

\* A queue client that has made no call: Channel.initial and
\* Connection.initial leave both listener lists empty and ch and conn null
\* (0), and nothing is open at the broker.
NoChannel == [listeners |-> <<>>, ch |-> 0]
NoConnection == [listeners |-> <<>>, conn |-> 0]
NoBroker == [conns |-> {}, creating |-> {}, chans |-> {}, n |-> 0]
QioIdle ==
    /\ channel = NoChannel
    /\ connection = NoConnection
    /\ attempts = {}
    /\ broker = NoBroker
    /\ ran = <<>>
    /\ issued = 0

ShellIdle ==
    /\ shells = <<>> /\ current = 0 /\ tasks = <<>>
    /\ tickQ = <<>> /\ seen = <<>> /\ crashed = FALSE /\ exited = NoExit
    /\ stack = <<>> /\ body = <<>> /\ ret = -1

InitFlatten ==
    /\ cmds \in [CmdIds -> UNION {CmdObjects(i) : i \in CmdIds}]
    /\ \A i \in CmdIds : cmds[i] \in CmdObjects(i)
    /\ fl = FlattenIdle
    /\ CtxIdle
    /\ ShellIdle
    /\ NotifierIdle
    /\ CallIdle
    /\ QioIdle

NextFlatten ==
    \/ \E a \in CmdIds, x \in CallArgs : InvokeDirect(a, x)
    \/ \E a \in CmdIds, x \in CallArgs : InvokeExec(a, x)
    \/ FlattenLoop
    \/ FlattenBuild

SpecFlatten == InitFlatten /\ [][NextFlatten]_vars

(***************************************************************************)
(* Claims about flattening, checked under SpecFlatten.                     *)
(***************************************************************************)
\* A = cmd(B, a...), B = cmd(C, b...), C = cmd('prog', c...)
IsChain3(a, b, c) ==
    /\ cmds[a].hasArgs /\ cmds[a].prog = CmdProg(b)
    /\ cmds[b].hasArgs /\ cmds[b].prog = CmdProg(c)
    /\ cmds[c].hasArgs /\ cmds[c].prog.k = "string"

\* C1: invoking A of a chain A -> B -> C -> 'prog', directly or through
\* exec, ends flattening with a job whose program is C's program string and
\* whose argument vector is c ++ b ++ a ++ x.
C1_ChainArgs ==
    \A a, b, c \in CmdIds :
        (IsChain3(a, b, c) /\ fl.start = a /\ fl.pc \in {"done", "cycle"})
        => /\ fl.pc = "done"
           /\ fl.prog = cmds[c].prog
           /\ fl.args = cmds[c].args \o cmds[b].args \o cmds[a].args \o fl.x

\* A chain of three commands, each with bound arguments, invoked directly
\* with call arguments, has been flattened.
C1_Witness ==
    \E a, b, c \in CmdIds :
        /\ IsChain3(a, b, c) /\ fl.start = a /\ fl.pc = "done"
        /\ fl.mode = "direct" /\ fl.x # <<>>
        /\ cmds[a].args # <<>> /\ cmds[b].args # <<>> /\ cmds[c].args # <<>>

RECURSIVE ReachesEnd(_, _)
\* Following at most n prog links from p leaves the commands with args.
ReachesEnd(p, n) ==
    IF ~LoopCond(p) THEN TRUE
    ELSE IF n = 0 THEN FALSE
    ELSE ReachesEnd(cmds[p.c].prog, n - 1)

\* The chain of prog links from command a never revisits a command.
Acyclic(a) == ReachesEnd(CmdProg(a), NumCmds)

\* C2: flattening terminates: the loop runs at most once per command plus
\* the iteration that finds the revisit, it is never stuck; it ends with the
\* cycle error only if the chain from the invoked command revisits a
\* command, and ends normally only if the chain is acyclic.
C2_FlattenTerminates ==
    /\ fl.iter <= NumCmds + 1
    /\ (fl.pc = "loop" => ENABLED (FlattenLoop \/ FlattenBuild))
    /\ (fl.pc = "cycle" => ~Acyclic(fl.start))
    /\ (fl.pc = "done" => Acyclic(fl.start))

\* A cycle through two or more commands has been walked and reported.
C2_Witness == fl.pc = "cycle" /\ Cardinality(fl.visited) >= 2

RECURSIVE OuterToInner(_, _)
\* The bound argument lists of the chain of at most n commands from p, the
\* list of the wrapper first and the list of the base command last.
OuterToInner(p, n) ==
    IF n = 0 \/ ~LoopCond(p) THEN <<>>
    ELSE cmds[p.c].args \o OuterToInner(cmds[p.c].prog, n - 1)

RECURSIVE InnerToOuter(_, _)
\* The same lists, the list of the base command first.
InnerToOuter(p, n) ==
    IF n = 0 \/ ~LoopCond(p) THEN <<>>
    ELSE InnerToOuter(cmds[p.c].prog, n - 1) \o cmds[p.c].args

\* C19 as stated: the argument vector of a flattened chain is the bound
\* argument lists from the outermost wrapper to the innermost base command,
\* followed by the arguments of the call.
C19_OuterFirst ==
    (fl.pc = "done" /\ cmds[fl.start].hasArgs) =>
        fl.args = OuterToInner(CmdProg(fl.start), NumCmds) \o fl.x

\* C19 amended: the argument vector of a flattened chain, of any length, is
\* the bound argument lists from the innermost base command to the
\* outermost wrapper, followed by the arguments of the call.
C19_InnerFirst ==
    (fl.pc = "done" /\ cmds[fl.start].hasArgs) =>
        fl.args = InnerToOuter(CmdProg(fl.start), NumCmds) \o fl.x

\* A command that wraps another one, both with bound arguments, has been
\* flattened through exec with call arguments.
C19_Witness ==
    /\ fl.pc = "done" /\ fl.mode = "exec" /\ fl.x # <<>>
    /\ cmds[fl.start].hasArgs /\ cmds[fl.start].args # <<>>
    /\ LoopCond(cmds[fl.start].prog)
    /\ cmds[cmds[fl.start].prog.c].args # <<>>

(***************************************************************************)
(* Contexts (tshell.ts 267-282) and ShellContext (tshell.ts 432-491).      *)
(* JavaScript values are written as strings; "undefined" is a property     *)
(* that is not set.                                                        *)
(***************************************************************************)
Undef == "undefined"

\* The keys merge copies like scalars: every key but env, listener and
\* listeners; '2>' and '2>>' are the keys redirectError reads.
SimpleProps ==
    {"dir", "throwFlag", "traceFlag", "detachedFlag",
     "<", ">", ">&", ">>", ">>&", "2>", "2>>"}

FlagProps == {"throwFlag", "traceFlag", "detachedFlag"}

\* The defined values a property may be set to, a falsy one among them.
PropValues(p) ==
    IF p \in FlagProps THEN {"false", "true"}
    ELSE IF p = "dir" THEN {"", "/d"}
    ELSE {"", "f.txt"}

\* if (v): JavaScript truthiness of the values used here.
Truthy(v) == v \notin {Undef, "null", "false", ""}

\* The listener objects: see Methods below.
ObsIds == {1, 2}
EnvKeys == {"K1", "K2"}
NoEnv == [k \in EnvKeys |-> Undef]

\* new ShellContext() with env = {} and listeners = [].
EmptyShellContext ==
    [props |-> [p \in SimpleProps |-> Undef], env |-> NoEnv,
     listener |-> 0, listeners |-> <<>>]

\* The loop of merge with a truthiness test in place of !== undefined.
MergePropsIfTruthy(this, context) ==
    [p \in SimpleProps |->
        IF Truthy(context.props[p]) THEN context.props[p] ELSE this.props[p]]

\* for (p of Object.keys(context))
\*     if (context[p] !== undefined && p is no env/listener/listeners key)
\*         this[p] = context[p]
MergeProps(this, context) ==
    [p \in SimpleProps |->
        IF context.props[p] # Undef THEN context.props[p] ELSE this.props[p]]

\* if (context.env) Object.assign(this.env, context.env)
MergeEnv(this, context) ==
    [k \in EnvKeys |->
        IF context.env[k] # Undef THEN context.env[k] ELSE this.env[k]]

\* Listeners handled like a scalar: the given list replaces this one.
MergeListenersReplace(this, context) ==
    IF context.listeners # <<>> \/ context.listener # 0
    THEN (IF context.listener # 0 THEN <<context.listener>> ELSE <<>>)
         \o context.listeners
    ELSE this.listeners

\* if (context.listener) this.listeners.push(context.listener)
\* if (context.listeners) this.listeners.push(...context.listeners)
MergeListeners(this, context) ==
    this.listeners
    \o (IF context.listener # 0 THEN <<context.listener>> ELSE <<>>)
    \o context.listeners

\* ShellContext.merge(context?): additions is <<>> for undefined.
merge(this, additions) ==
    IF additions = <<>> THEN this
    ELSE LET context == additions[1] IN
         [props |-> MergeProps(this, context),
          env |-> MergeEnv(this, context),
          listener |-> this.listener,
          listeners |-> MergeListeners(this, context)]

\* ShellContext.clone(additions?)
clone(this, additions) == merge(merge(EmptyShellContext, <<this>>), additions)

\* ShellContext.initial(additions) as ShellImpl.instance calls it.
InitialContext ==
    merge(EmptyShellContext,
          <<[EmptyShellContext EXCEPT
                !.props = [p \in SimpleProps |->
                    CASE p = "dir" -> "/d"
                      [] p = "throwFlag" -> "true"
                      [] p \in {"traceFlag", "detachedFlag"} -> "false"
                      [] p \in {"<", ">", ">&", ">>", ">>&"} -> "null"
                      [] OTHER -> Undef],
                !.env = [k \in EnvKeys |-> IF k = "K1" THEN "v1" ELSE Undef]]>>)

(***************************************************************************)
(* Cloning one context with one override (SpecCtx).                        *)
(***************************************************************************)
\* The contexts a shell holds when clone is called: the initial one, with
\* or without listeners, and ones whose properties the program has assigned.
BaseContexts ==
    LET assigned ==
          {InitialContext,
           [InitialContext EXCEPT !.props["throwFlag"] = "false",
                                  !.props[">"] = "f.txt",
                                  !.props["dir"] = "",
                                  !.env["K2"] = "v2"],
           [InitialContext EXCEPT !.props["traceFlag"] = "true",
                                  !.props["<"] = Undef,
                                  !.props["2>"] = "f.txt"]}
    IN {[c EXCEPT !.listeners = l] :
            c \in assigned, l \in {<<>>, <<1>>, <<2, 1>>}}

RECURSIVE ValsFor(_)
\* The assignments of a defined value to each property of set.
ValsFor(set) ==
    IF set = {} THEN {[p \in {} |-> Undef]}
    ELSE LET p == CHOOSE q \in set : TRUE IN
         {[q \in set |-> IF q = p THEN v ELSE r[q]] :
              v \in PropValues(p), r \in ValsFor(set \ {p})}

\* An override context setting the properties in set to the values vals.
OverrideWith(set, vals, e, l, ls) ==
    [props |-> [p \in SimpleProps |-> IF p \in set THEN vals[p] ELSE Undef],
     env |-> e, listener |-> l, listeners |-> ls]

\* The Context objects given as additions: at most n properties set.
Overrides(n) ==
    UNION {{OverrideWith(set, vals, e, l, ls) :
                vals \in ValsFor(set),
                e \in {NoEnv, [k \in EnvKeys |-> "w"]},
                l \in {0, 2},
                ls \in {<<>>, <<1>>, <<1, 2>>}} :
           set \in {s \in SUBSET SimpleProps : Cardinality(s) <= n}}

InitCtx ==
    /\ cmds = [i \in CmdIds |-> subshell]
    /\ fl = FlattenIdle
    /\ over \in {<<>>} \cup {<<o>> : o \in Overrides(MaxOver)}
    /\ ctxH \in {<<b>> : b \in BaseContexts}
    /\ cres = 0
    /\ cuse = NoUse
    /\ ShellIdle
    /\ NotifierIdle
    /\ CallIdle
    /\ QioIdle

\* The env and listeners objects of the clone and of this at once.
CloneSharesAll(this) == {"env", "listeners"}

\* The objects of the clone that are objects of this as well: none, clone
\* gives c a new env object and a new listeners array and merge copies the
\* entries of this into them.
CloneShares(this) == {}

\* res = base.clone(over): a new object.
CloneStep ==
    /\ cres = 0
    /\ ctxH' = Append(ctxH, clone(ctxH[1], over))
    /\ cres' = Len(ctxH) + 1
    /\ cuse' = [shared |-> CloneShares(ctxH[1]), changed |-> FALSE]
    /\ UNCHANGED <<over, flattenVars, shellVars, notifierVars, callVars, qioVars>>

NextCtx == CloneStep

SpecCtx == InitCtx /\ [][NextCtx]_vars

(***************************************************************************)
(* Claims about clone and merge, checked under SpecCtx.                    *)
(***************************************************************************)
\* The observers an override context carries: listener, then listeners.
OverObservers ==
    IF over = <<>> THEN <<>>
    ELSE (IF over[1].listener # 0 THEN <<over[1].listener>> ELSE <<>>)
         \o over[1].listeners

\* C9: the clone's observer list is the base's observers, in order, followed
\* by the override's single listener and then its listeners list.
C9_ObserversAccumulate ==
    cres # 0 => ctxH[cres].listeners = ctxH[1].listeners \o OverObservers

\* A base with two observers was cloned with an override that sets scalar
\* properties and carries both a listener and a listeners list.
C9_Witness ==
    /\ cres # 0 /\ over # <<>>
    /\ Len(ctxH[1].listeners) = 2
    /\ over[1].listener # 0 /\ over[1].listeners # <<>>
    /\ over[1].props["throwFlag"] = "false"
    /\ Len(ctxH[cres].listeners) = 5

\* C10: each scalar or redirection property of the clone is the override's
\* value when the override defines it, falsy or not, and the base's value
\* when it does not.
C10_ScalarOverride ==
    cres # 0 =>
        \A p \in SimpleProps :
            ctxH[cres].props[p] =
                IF over # <<>> /\ over[1].props[p] # Undef
                THEN over[1].props[p]
                ELSE ctxH[1].props[p]

\* An override with a falsy flag and a property left undefined was applied
\* to a base where both are set to something else.
C10_Witness ==
    /\ cres # 0 /\ over # <<>>
    /\ over[1].props["throwFlag"] = "false" /\ ctxH[1].props["throwFlag"] = "true"
    /\ over[1].props["dir"] = "" /\ ctxH[1].props["dir"] = "/d"
    /\ over[1].props[">"] = Undef /\ ctxH[cres].props[">"] = "null"
    /\ ctxH[cres].props["throwFlag"] = "false" /\ ctxH[cres].props["dir"] = ""

(***************************************************************************)
(* Using a clone after it was made (SpecCloneUse): the program assigns an  *)
(* entry of the clone's env or adds a listener to the clone.               *)
(***************************************************************************)
\* The env objects an override carries: each key given or not.
EnvOverrides == [EnvKeys -> {Undef, "w"}]

InitCloneUse ==
    /\ cmds = [i \in CmdIds |-> subshell]
    /\ fl = FlattenIdle
    /\ over \in {<<>>} \cup
                {<<OverrideWith({}, <<>>, e, l, ls)>> :
                    e \in EnvOverrides, l \in {0, 2},
                    ls \in {<<>>, <<1>>, <<1, 2>>}}
    /\ ctxH \in {<<b>> : b \in BaseContexts}
    /\ cres = 0
    /\ cuse = NoUse
    /\ ShellIdle
    /\ NotifierIdle
    /\ CallIdle
    /\ QioIdle

\* res.env[k] = v: an assignment to the env object of the clone, which
\* is seen through every context that holds the same object.
CloneEnvSet(k, v) ==
    /\ cres # 0 /\ ~cuse.changed
    /\ ctxH' = [ctxH EXCEPT
                   ![cres].env[k] = v,
                   ![1].env[k] = IF "env" \in cuse.shared THEN v ELSE @]
    /\ cuse' = [cuse EXCEPT !.changed = TRUE]
    /\ UNCHANGED <<over, cres, flattenVars, shellVars, notifierVars, callVars, qioVars>>

\* res.listeners.push(o), as listenerAdd does on the shell of the clone.
CloneListenerPush(o) ==
    /\ cres # 0 /\ ~cuse.changed
    /\ ctxH' = [ctxH EXCEPT
                   ![cres].listeners = Append(@, o),
                   ![1].listeners =
                       IF "listeners" \in cuse.shared THEN Append(@, o) ELSE @]
    /\ cuse' = [cuse EXCEPT !.changed = TRUE]
    /\ UNCHANGED <<over, cres, flattenVars, shellVars, notifierVars, callVars, qioVars>>

NextCloneUse ==
    \/ CloneStep
    \/ \E k \in EnvKeys : CloneEnvSet(k, "z")
    \/ \E o \in ObsIds : CloneListenerPush(o)

SpecCloneUse == InitCloneUse /\ [][NextCloneUse]_vars

\* C11: the clone's env is the union of the base's and the override's
\* entries, the override's value on every key both have; neither making the
\* clone nor a later change of the clone's env entries or listeners changes
\* the base or the override.
C11_CloneEnvUnion ==
    [][/\ ctxH'[1] = ctxH[1]
       /\ over' = over
       /\ (cres = 0 /\ cres' # 0) =>
             \A k \in EnvKeys :
                 ctxH'[cres'].env[k] =
                     IF over # <<>> /\ over[1].env[k] # Undef
                     THEN over[1].env[k]
                     ELSE ctxH[1].env[k]]_vars

\* A clone of a base with both keys and an override with one of them was
\* made, and then the entry it took from the base was assigned.
C11_Witness ==
    /\ cres # 0 /\ cuse.changed /\ over # <<>>
    /\ over[1].env = [k \in EnvKeys |-> IF k = "K2" THEN "w" ELSE Undef]
    /\ ctxH[1].env = [k \in EnvKeys |-> IF k = "K1" THEN "v1" ELSE "v2"]
    /\ ctxH[cres].env = [k \in EnvKeys |-> IF k = "K1" THEN "z" ELSE "w"]

(***************************************************************************)
(* Exit statuses and errors (tshell.ts 110-158). An error carries the task *)
(* whose command line it was built from.                                   *)
(***************************************************************************)
NoArg == [k |-> "none", v |-> 0, of |-> 0]
\* ExitStatus as a number: an exit code.
Code(c) == [k |-> "code", v |-> c, of |-> 0]
\* new ExitError(this.cmdline(), s)
ExitError(t, c) == [k |-> "ExitError", v |-> c, of |-> t]
\* The signal a child process is ended by, as a number.
SIGTERM == 15

\* new SignalError(this.cmdline(), signal)
SignalError(t) == [k |-> "SignalError", v |-> SIGTERM, of |-> t]
\* The error of a failed fs.open, write stream or spawn.
IOError(t) == [k |-> "Error", v |-> 0, of |-> t]
\* new Error('Unrecognized input ' + s)
InputError(t) == [k |-> "UnrecognizedInput", v |-> 0, of |-> t]
\* The rejection of a shell function's promise.
BodyError(t) == [k |-> "BodyError", v |-> 0, of |-> t]

\* The exit codes a child process closes with.
ExitCodes == {0, 1, 2}

(***************************************************************************)
(* Shell listeners (tshell.ts 228-232): every method is optional. The      *)
(* listeners are those of tests/tshell-tests.ts.                           *)
(***************************************************************************)
AllMethods == {"started", "finished", "failed"}

Methods(o) ==
    CASE o = 1 -> AllMethods                \* TestListener, lines 19-37
      [] o = 2 -> {"started", "failed"}     \* TestListenerOne, lines 119-125

Range(f) == {f[i] : i \in DOMAIN f}

RECURSIVE RemoveFirst(_, _)
\* listeners.splice(i, 1) for the first i with listeners[i] === listener
RemoveFirst(ls, o) ==
    IF ls = <<>> THEN <<>>
    ELSE IF Head(ls) = o THEN Tail(ls)
    ELSE <<Head(ls)>> \o RemoveFirst(Tail(ls), o)

(***************************************************************************)
(* The state the shell code works on, as one record, so that a handler and *)
(* every function it calls are one step.                                   *)
(***************************************************************************)
St ==
    [ctxH |-> ctxH, shells |-> shells, current |-> current,
     tasks |-> tasks, tickQ |-> tickQ]

Commit(st) ==
    /\ ctxH' = st.ctxH
    /\ shells' = st.shells
    /\ current' = st.current
    /\ tasks' = st.tasks
    /\ tickQ' = st.tickQ

\* this.context of a task, and the context of the shell it was created on.
JobContext(st, t) == st.ctxH[st.tasks[t].ctx]
ShellContextOf(st, sh) == st.ctxH[st.shells[sh].context]

\* A queue that runs the callback queued last first.
EnqueueFront(q, ticks) == ticks \o q

\* process.nextTick(callback): callbacks run in the order queued.
Enqueue(q, ticks) == q \o ticks

\* CmdTask.post: one nextTick callback per listener of this.context, each
\* calling listener[notification].apply(listener, args).
post(st, t, notification, arg) ==
    LET ls == JobContext(st, t).listeners IN
    [st EXCEPT !.tickQ =
        Enqueue(@, [i \in 1..Len(ls) |->
                       [o |-> ls[i], n |-> notification, t |-> t, arg |-> arg]])]

\* resolveFunc / rejectFunc: a promise settles once.
Settle(task, how, v) ==
    IF task.promise = "pending"
    THEN [task EXCEPT !.promise = how, !.value = v]
    ELSE task

\* A shell that throws on every failure, whatever its flag.
FlagAlwaysSet(st, t) == TRUE

\* The flag returnStatus and returnError consult.
ReturnFlag(st, t) ==
    Truthy(ShellContextOf(st, st.tasks[t].sh).props["throwFlag"])

\* The flag of the task's own context.
JobFlag(st, t) == Truthy(JobContext(st, t).props["throwFlag"])

\* The value returnStatus passes to the failed notification.
FailedArg(s, err) == s

(***************************************************************************)
(* Captured output (tshell.ts 665-670). Text is a sequence of characters;  *)
(* the output property is the sequence of the chunks received.             *)
(***************************************************************************)
NL == "NL"
SP == " "
COMMA == ","

RECURSIVE JoinWith(_, _)
\* Array.prototype.join(separator) on the chunks, each as text.
JoinWith(chunks, sep) ==
    IF chunks = <<>> THEN <<>>
    ELSE IF Len(chunks) = 1 THEN chunks[1]
    ELSE chunks[1] \o sep \o JoinWith(Tail(chunks), sep)

\* The chunks one after the other, with nothing between them.
ConcatChunks(chunks) == JoinWith(chunks, <<>>)

\* this.output.join(): join without an argument separates with a comma.
Join(chunks) == JoinWith(chunks, <<COMMA>>)

RECURSIVE ReplaceNewlines(_)
\* replace(/\n+/g, ' '): every maximal run of newlines becomes one space.
ReplaceNewlines(str) ==
    IF str = <<>> THEN <<>>
    ELSE IF Head(str) # NL THEN <<Head(str)>> \o ReplaceNewlines(Tail(str))
    ELSE IF Len(str) > 1 /\ str[2] = NL THEN ReplaceNewlines(Tail(str))
    ELSE <<SP>> \o ReplaceNewlines(Tail(str))

RECURSIVE TrimStart(_)
TrimStart(str) ==
    IF str # <<>> /\ Head(str) \in {SP, NL} THEN TrimStart(Tail(str)) ELSE str

RECURSIVE TrimEnd(_)
TrimEnd(str) ==
    IF str # <<>> /\ str[Len(str)] \in {SP, NL}
    THEN TrimEnd(SubSeq(str, 1, Len(str) - 1))
    ELSE str

\* String.prototype.trim()
Trim(str) == TrimEnd(TrimStart(str))

\* get captured(): this.output.join().replace(/\n+/g, ' ').trim()
captured(output) == Trim(ReplaceNewlines(Join(output)))

\* The promise of output() before its task has completed.
NoOut == [promise |-> "pending", text |-> <<>>, err |-> NoArg]

\* The functions output() passes to task.exec, called by resolveFunc and
\* rejectFunc with the value the task has just settled with; throwFlag is
\* the flag of the shell when output() was called.
OutputCallbacks(st, t) ==
    LET task == st.tasks[t]
        sh == task.sh
        text == captured(task.output)
        err == IF task.value.k = "code" THEN ExitError(t, task.value.v)
               ELSE task.value
    IN  IF task.entry # "output" THEN st
        ELSE IF task.promise = "resolved"
                /\ (task.value = Code(0) \/ ~task.oflag)
        THEN [st EXCEPT
                 !.shells[sh].status = task.value,
                 !.tasks[t].out = [promise |-> "resolved", text |-> text,
                                   err |-> NoArg]]
        ELSE [st EXCEPT
                 !.shells[sh].status = err,
                 !.tasks[t].out =
                     IF task.oflag
                     THEN [promise |-> "rejected", text |-> <<>>, err |-> err]
                     ELSE [promise |-> "resolved", text |-> text,
                           err |-> NoArg]]

\* A returnStatus that takes every status for a failure when the flag is
\* set.
returnStatusStrict(st, t, s) ==
    LET sh == st.tasks[t].sh
        ls == JobContext(st, t).listeners
        err == IF s.k = "code" THEN ExitError(t, s.v) ELSE s
    IN  IF ~ReturnFlag(st, t)
        THEN post(OutputCallbacks(
                      [st EXCEPT !.current = sh,
                                 !.shells[sh].status = s,
                                 !.tasks[t] = [Settle(@, "resolved", s) EXCEPT
                                                  !.pc = "ended", !.endLs = ls]],
                      t),
                  t, "finished", s)
        ELSE post(OutputCallbacks(
                      [st EXCEPT !.current = sh,
                                 !.shells[sh].status = err,
                                 !.tasks[t] = [Settle(@, "rejected", err) EXCEPT
                                                  !.pc = "ended", !.endLs = ls]],
                      t),
                  t, "failed", FailedArg(s, err))

\* CmdTask.returnStatus(sh, s)
returnStatus(st, t, s) ==
    LET sh == st.tasks[t].sh
        ls == JobContext(st, t).listeners
    IN  IF s = Code(0) \/ ~ReturnFlag(st, t)
        THEN post(OutputCallbacks(
                      [st EXCEPT !.current = sh,
                                 !.shells[sh].status = s,
                                 !.tasks[t] = [Settle(@, "resolved", s) EXCEPT
                                                  !.pc = "ended", !.endLs = ls]],
                      t),
                  t, "finished", s)
        ELSE LET err == IF s.k = "code" THEN ExitError(t, s.v) ELSE s IN
             post(OutputCallbacks(
                      [st EXCEPT !.current = sh,
                                 !.shells[sh].status = err,
                                 !.tasks[t] = [Settle(@, "rejected", err) EXCEPT
                                                  !.pc = "ended", !.endLs = ls]],
                      t),
                  t, "failed", FailedArg(s, err))

\* A returnError that posts failed whether it rejects or resolves.
returnErrorPostsFailed(st, t, err) ==
    LET sh == st.tasks[t].sh
        ls == JobContext(st, t).listeners
        st1 == [st EXCEPT !.current = sh, !.shells[sh].status = err]
        how == IF ReturnFlag(st, t) THEN "rejected" ELSE "resolved"
    IN  post(OutputCallbacks(
                 [st1 EXCEPT !.tasks[t] = [Settle(@, how, err) EXCEPT
                                              !.pc = "ended", !.endLs = ls]],
                 t),
             t, "failed", err)

\* A returnError that leaves the status of the shell as it is.
returnErrorKeepsStatus(st, t, err) ==
    LET sh == st.tasks[t].sh
        ls == JobContext(st, t).listeners
        st1 == [st EXCEPT !.current = sh]
        how == IF ReturnFlag(st, t) THEN "rejected" ELSE "resolved"
    IN  post(OutputCallbacks(
                 [st1 EXCEPT !.tasks[t] = [Settle(@, how, err) EXCEPT
                                              !.pc = "ended", !.endLs = ls]],
                 t),
             t, IF ReturnFlag(st, t) THEN "failed" ELSE "finished", err)

\* CmdTask.returnError(sh, err)
returnError(st, t, err) ==
    LET sh == st.tasks[t].sh
        ls == JobContext(st, t).listeners
        st1 == [st EXCEPT !.current = sh, !.shells[sh].status = err]
    IN  IF ReturnFlag(st, t)
        THEN post(OutputCallbacks(
                      [st1 EXCEPT !.tasks[t] = [Settle(@, "rejected", err) EXCEPT
                                                   !.pc = "ended", !.endLs = ls]],
                      t),
                  t, "failed", err)
        ELSE post(OutputCallbacks(
                      [st1 EXCEPT !.tasks[t] = [Settle(@, "resolved", err) EXCEPT
                                                   !.pc = "ended", !.endLs = ls]],
                      t),
                  t, "finished", err)

\* An entry of the record a task keeps of what its code has done: the call
\* made or the handler run, and the redirection key it was for.
Ev(e, slot) == [e |-> e, slot |-> slot]

Log(st, t, e, slot) == [st EXCEPT !.tasks[t].log = Append(@, Ev(e, slot))]

\* An errorNotify that writes the message whatever the flag.
errorNotifyWrites(st, t, err, accepted) ==
    IF accepted
    THEN returnError(Log(st, t, "write", st.tasks[t].stdio[3]), t, err)
    ELSE [Log(st, t, "write", st.tasks[t].stdio[3]) EXCEPT
             !.tasks[t].pc = "drain", !.tasks[t].perr = err]

\* CmdTask.errorNotify(err): accepted is what out.write returned.
errorNotify(st, t, err, accepted) ==
    IF JobFlag(st, t)
    THEN returnError(st, t, err)
    ELSE IF accepted
    THEN returnError(Log(st, t, "write", st.tasks[t].stdio[3]), t, err)
    ELSE [Log(st, t, "write", st.tasks[t].stdio[3]) EXCEPT
             !.tasks[t].pc = "drain", !.tasks[t].perr = err]

\* A clone that works on the context of the shell it is made from.
ShellCloneSharesContext(st, sh, context) ==
    [st EXCEPT
        !.ctxH = Append(@, clone(ShellContextOf(st, sh), <<context>>)),
        !.shells = Append(@, [context |-> st.shells[sh].context,
                              jobIdent |-> 0, status |-> Code(0)])]

\* A clone that goes on with the job counter of the shell it is made from.
ShellCloneKeepsCount(st, sh, context) ==
    [st EXCEPT
        !.ctxH = Append(@, clone(ShellContextOf(st, sh), <<context>>)),
        !.shells = Append(@, [context |-> Len(st.ctxH) + 1,
                              jobIdent |-> st.shells[sh].jobIdent,
                              status |-> Code(0)])]

\* ShellImpl.clone(context): a new shell on a clone of the shell's context.
ShellClone(st, sh, context) ==
    [st EXCEPT
        !.ctxH = Append(@, clone(ShellContextOf(st, sh), <<context>>)),
        !.shells = Append(@, [context |-> Len(st.ctxH) + 1,
                              jobIdent |-> 0, status |-> Code(0)])]

\* A run that calls the function of a subshell without making the clone
\* current.
runKeepsCurrent(st, t) ==
    IF st.tasks[t].kind = "child"
    THEN [Log(st, t, "run", "") EXCEPT
             !.tasks[t].pc = "running",
             !.tasks[t].stdio[2] =
                 IF st.tasks[t].entry = "output" THEN "pipe" ELSE @]
    ELSE [ShellClone(Log(st, t, "run", ""), st.tasks[t].sh,
                     JobContext(st, t)) EXCEPT
             !.tasks[t].pc = "running",
             !.tasks[t].sub = Len(st.shells) + 1]

\* ChildTask.run spawns the process; ShellTask.run makes a clone of the
\* shell current and calls the function.
run(st, t) ==
    IF st.tasks[t].kind = "child"
    THEN [Log(st, t, "run", "") EXCEPT
             !.tasks[t].pc = "running",
             !.tasks[t].stdio[2] =
                 IF st.tasks[t].entry = "output" THEN "pipe" ELSE @]
    ELSE [ShellClone(Log(st, t, "run", ""), st.tasks[t].sh,
                     JobContext(st, t)) EXCEPT
             !.current = Len(st.shells) + 1,
             !.tasks[t].pc = "running",
             !.tasks[t].sub = Len(st.shells) + 1]

\* typeof v === 'string'
IsString(v) == v \in {"", "f.txt", "/d"}

\* CmdTask.ostream(a, w): no stream, a write stream created for a path
\* (checked), or the stream given.
ostream(c, a, w) ==
    IF Truthy(c.props[a])
    THEN (IF IsString(c.props[a]) THEN "file" ELSE "handle")
    ELSE IF IsString(c.props[w]) THEN "file"
    ELSE IF Truthy(c.props[w]) THEN "handle"
    ELSE "none"

\* The key whose value ostream(a, w) returns: a when context[a] is truthy.
oslot(c, a, w) == IF Truthy(c.props[a]) THEN a ELSE w

\* CmdTask.redirectError
redirectError(st, t) ==
    LET c == JobContext(st, t) IN
    IF ostream(c, "2>>", "2>") # "none"
    THEN [Log(st, t, "stream", oslot(c, "2>>", "2>")) EXCEPT
             !.tasks[t].pc = "openErr"]
    ELSE run(st, t)

\* A redirectOutput that looks at '>>' and '>' before '>>&' and '>&'.
redirectOutputSeparateFirst(st, t) ==
    LET c == JobContext(st, t) IN
    IF ostream(c, ">>", ">") # "none"
    THEN [Log(st, t, "stream", oslot(c, ">>", ">")) EXCEPT
             !.tasks[t].pc = "openOut"]
    ELSE IF ostream(c, ">>&", ">&") # "none"
    THEN [Log(st, t, "stream", oslot(c, ">>&", ">&")) EXCEPT
             !.tasks[t].pc = "openOut", !.tasks[t].both = TRUE]
    ELSE redirectError(st, t)

\* CmdTask.redirectOutput
redirectOutput(st, t) ==
    LET c == JobContext(st, t) IN
    IF ostream(c, ">>&", ">&") # "none"
    THEN [Log(st, t, "stream", oslot(c, ">>&", ">&")) EXCEPT
             !.tasks[t].pc = "openOut", !.tasks[t].both = TRUE]
    ELSE IF ostream(c, ">>", ">") # "none"
    THEN [Log(st, t, "stream", oslot(c, ">>", ">")) EXCEPT
             !.tasks[t].pc = "openOut"]
    ELSE redirectError(st, t)

\* A redirectInput that does not wait for fs.open to call back.
redirectInputNoWait(st, t, accepted) ==
    LET s == JobContext(st, t).props["<"] IN
    IF ~Truthy(s) THEN redirectOutput(st, t)
    ELSE IF IsString(s) THEN redirectOutput(Log(st, t, "fsopen", "<"), t)
    ELSE IF s = "<stream>"
    THEN redirectOutput([Log(st, t, "pipe", "<") EXCEPT
                            !.tasks[t].stdio[1] = "pipe"], t)
    ELSE errorNotify(st, t, InputError(t), accepted)

\* CmdTask.redirectInput
redirectInput(st, t, accepted) ==
    LET s == JobContext(st, t).props["<"] IN
    IF ~Truthy(s) THEN redirectOutput(st, t)
    ELSE IF IsString(s)
    THEN [Log(st, t, "fsopen", "<") EXCEPT !.tasks[t].pc = "openIn"]
    ELSE IF s = "<stream>"
    THEN redirectOutput([Log(st, t, "pipe", "<") EXCEPT
                            !.tasks[t].stdio[1] = "pipe"], t)
    ELSE errorNotify(st, t, InputError(t), accepted)

\* An exec that posts started once redirectInput has returned.
execStartedLast(st, t, accepted) ==
    Log(post(redirectInput(st, t, accepted), t, "started", NoArg),
        t, "started", "")

\* CmdTask.exec(resolve, reject): post('started') and then redirectInput().
exec(st, t, accepted) ==
    redirectInput(Log(post(st, t, "started", NoArg), t, "started", ""),
                  t, accepted)

(***************************************************************************)
(* The calls a program makes. A call is made from an await continuation or *)
(* from an I/O callback, that is once the callbacks queued with nextTick   *)
(* have run.                                                               *)
(***************************************************************************)
\* The process is alive and no nextTick callback is waiting.
Quiet == ~crashed /\ tickQ = <<>>

Only(p, v) == OverrideWith({p}, [q \in {p} |-> v], NoEnv, 0, <<>>)

\* The calls made under Spec, as <<kind of program, context>>: a program
\* or a subshell with no context; a program with the flag cleared, with
\* input from a file, and with input from an object that is no stream.
Calls ==
    {<<"child", <<>> >>,
     <<"shell", <<>> >>,
     <<"child", <<Only("throwFlag", "false")>> >>,
     <<"child", <<Only("<", "f.txt")>> >>,
     <<"child", <<Only("<", "<object>")>> >>}

\* ShellImpl.task followed by CmdTask.exec, as exec and output call them.
\* stdio[1], stdio[2] and stdio[3] are the task's stdio[0], stdio[1] and
\* stdio[2].
Start(entry, kind, context, accepted) ==
    /\ Quiet
    /\ LET sh == current
           cid == IF context = <<>> THEN shells[sh].context ELSE Len(ctxH) + 1
           heap == IF context = <<>> THEN ctxH
                   ELSE Append(ctxH, clone(ctxH[shells[sh].context], context))
           t == Len(tasks) + 1
           jobIdent == shells[sh].jobIdent + 1
           new == [kind |-> kind, sh |-> sh, ctx |-> cid, ident |-> jobIdent,
                   pc |-> "new", promise |-> "pending", value |-> NoArg,
                   perr |-> NoArg, both |-> FALSE, sub |-> 0,
                   regs |-> Range(heap[cid].listeners), endLs |-> <<>>,
                   entry |-> entry,
                   oflag |-> entry = "output"
                             /\ Truthy(ctxH[shells[sh].context]
                                           .props["throwFlag"]),
                   stdio |-> <<"stdin", "stdout", "stderr">>,
                   output |-> <<>>, out |-> NoOut, log |-> <<>>]
           st0 == [ctxH |-> heap,
                   shells |-> [shells EXCEPT ![sh].jobIdent = jobIdent],
                   current |-> current,
                   tasks |-> Append(tasks, new),
                   tickQ |-> tickQ]
       IN  Commit(exec(st0, t, accepted))
    /\ seen' = Append(seen, [o \in ObsIds |-> <<>>])
    /\ UNCHANGED <<crashed, exited, flattenVars, cloneVars, notifierVars,
                   callVars, qioVars>>

\* exec(p, ...args, context) and, with no context, a command function.
Exec(kind, context, accepted) ==
    Start("exec", kind, context, accepted) /\ UNCHANGED progVars

\* output(p, ...args, context): the task captures what the child writes.
Output(kind, context, accepted) ==
    Start("output", kind, context, accepted) /\ UNCHANGED progVars

\* ShellImpl.listenerAdd on shell(), of a listener not yet added to it.
ListenerAdd(o) ==
    /\ Quiet
    /\ o \notin Range(ctxH[shells[current].context].listeners)
    /\ ctxH' = [ctxH EXCEPT ![shells[current].context].listeners = Append(@, o)]
    /\ UNCHANGED <<shellVars, flattenVars, cloneVars, notifierVars, callVars, qioVars>>

\* ShellImpl.listenerDel on shell().
ListenerDel(o) ==
    /\ Quiet
    /\ o \in Range(ctxH[shells[current].context].listeners)
    /\ ctxH' = [ctxH EXCEPT
                   ![shells[current].context].listeners = RemoveFirst(@, o)]
    /\ UNCHANGED <<shellVars, flattenVars, cloneVars, notifierVars, callVars, qioVars>>

\* ShellImpl.listenerDelAll on shell().
ListenerDelAll ==
    /\ Quiet
    /\ ctxH[shells[current].context].listeners # <<>>
    /\ ctxH' = [ctxH EXCEPT ![shells[current].context].listeners = <<>>]
    /\ UNCHANGED <<shellVars, flattenVars, cloneVars, notifierVars, callVars, qioVars>>

\* shell().context.throwFlag = v
SetThrowFlag(v) ==
    /\ Quiet
    /\ ctxH[shells[current].context].props["throwFlag"] # v
    /\ ctxH' = [ctxH EXCEPT ![shells[current].context].props["throwFlag"] = v]
    /\ UNCHANGED <<shellVars, flattenVars, cloneVars, notifierVars, callVars, qioVars>>

(***************************************************************************)
(* The callbacks the event loop runs. Callbacks of process.nextTick run    *)
(* before any I/O callback.                                                *)
(***************************************************************************)
Event(t, pc) ==
    /\ Quiet
    /\ t \in DOMAIN tasks
    /\ tasks[t].pc = pc

Step(st) ==
    /\ Commit(st)
    /\ UNCHANGED <<seen, crashed, exited, progVars, flattenVars, cloneVars,
                   notifierVars, callVars, qioVars>>

\* A callback of fs.open that goes on to the output step after an error.
InputOpenedGoesOn(t, err, accepted) ==
    /\ Event(t, "openIn")
    /\ Step(redirectOutput(Log(St, t, IF err THEN "error" ELSE "fd", "<"), t))

\* The callback of fs.open(s, 'r', ...) in redirectInput.
InputOpened(t, err, accepted) ==
    /\ Event(t, "openIn")
    /\ Step(IF err THEN errorNotify(Log(St, t, "error", "<"), t, IOError(t),
                                     accepted)
            ELSE redirectOutput([Log(St, t, "fd", "<") EXCEPT
                                    !.tasks[t].stdio[1] = "fd"], t))

\* The key of the stream the task is waiting for.
Awaited(t) == tasks[t].log[Len(tasks[t].log)].slot

\* The 'open' handler of the output stream in redirectOutput. A stream made
\* by fs.createWriteStream emits 'open'; a stream given as a handle is one
\* that is open already and emits it no more.
OutputOpen(t) ==
    /\ Event(t, "openOut")
    /\ LET c == JobContext(St, t)
           both == ostream(c, ">>&", ">&")
           s == ostream(c, ">>", ">")
       IN  /\ (IF tasks[t].both THEN both ELSE s) = "file"
           /\ Step(IF tasks[t].both
                   THEN run([Log(St, t, "open", Awaited(t)) EXCEPT
                                !.tasks[t].stdio[2] = both,
                                !.tasks[t].stdio[3] = both], t)
                   ELSE redirectError([Log(St, t, "open", Awaited(t)) EXCEPT
                                          !.tasks[t].stdio[2] = s], t))

\* The 'open' handler of the error stream in redirectError.
ErrorOpen(t) ==
    /\ Event(t, "openErr")
    /\ ostream(JobContext(St, t), "2>>", "2>") = "file"
    /\ Step(run([Log(St, t, "open", Awaited(t)) EXCEPT
                    !.tasks[t].stdio[3] =
                        ostream(JobContext(St, t), "2>>", "2>")], t))

\* The 'error' handler of a stream made by checked(): errorFunc. Only the
\* streams ostream makes for a path are checked.
StreamError(t, accepted) ==
    /\ Event(t, tasks[t].pc)
    /\ tasks[t].pc \in {"openOut", "openErr"}
    /\ IsString(JobContext(St, t).props[Awaited(t)])
    /\ Step(errorNotify(Log(St, t, "error", Awaited(t)), t, IOError(t),
                        accepted))

\* The 'drain' handler that write() adds when out.write returned false.
Drain(t) ==
    /\ Event(t, "drain")
    /\ Step(returnError(Log(St, t, "drain", ""), t, tasks[t].perr))

\* The 'error' handler of the child process: errorFunc.
ChildError(t, accepted) ==
    /\ Event(t, "running")
    /\ tasks[t].kind = "child"
    /\ Step(errorNotify(Log(St, t, "error", ""), t, IOError(t), accepted))

\* The 'close' handler of the child process, with an exit code.
ChildClose(t, code) ==
    /\ Event(t, "running")
    /\ tasks[t].kind = "child"
    /\ Step(returnStatus(Log(St, t, "close", ""), t, Code(code)))

\* A 'close' handler that takes the end by a signal for an exit code.
ChildSignalAsCode(t) ==
    /\ Event(t, "running")
    /\ tasks[t].kind = "child"
    /\ Step(returnStatus(Log(St, t, "close", ""), t, Code(1)))

\* The 'close' handler of the child process, with a signal.
ChildSignal(t) ==
    /\ Event(t, "running")
    /\ tasks[t].kind = "child"
    /\ Step(returnError(Log(St, t, "close", ""), t, SignalError(t)))

\* The fulfilment handler of the shell function's promise: a promise job,
\* which may run ahead of callbacks queued with nextTick.
BodyReturn(t) ==
    /\ ~crashed
    /\ t \in DOMAIN tasks
    /\ tasks[t].pc = "running" /\ tasks[t].kind = "shell"
    /\ Step(returnStatus(St, t, shells[tasks[t].sh].status))

\* The rejection handler of the shell function's promise.
BodyThrow(t) ==
    /\ ~crashed
    /\ t \in DOMAIN tasks
    /\ tasks[t].pc = "running" /\ tasks[t].kind = "shell"
    /\ Step(returnError(St, t, BodyError(t)))

\* One callback queued by post: listener[notification].apply(listener, args)
\* throws a TypeError when the listener has no such method, and an exception
\* that escapes a nextTick callback ends the process.
Deliver ==
    /\ ~crashed
    /\ tickQ # <<>>
    /\ LET h == Head(tickQ) IN
        IF h.n \in Methods(h.o)
        THEN /\ seen' = [seen EXCEPT ![h.t][h.o] =
                            Append(@, [n |-> h.n, arg |-> h.arg])]
             /\ crashed' = FALSE
        ELSE /\ crashed' = TRUE
             /\ seen' = seen
    /\ tickQ' = Tail(tickQ)
    /\ UNCHANGED <<ctxH, shells, current, tasks, exited, progVars,
                   flattenVars, cloneVars, notifierVars, callVars, qioVars>>

\* let current = ShellImpl.instance
Init ==
    /\ cmds = [i \in CmdIds |-> subshell]
    /\ fl = FlattenIdle
    /\ over = <<>> /\ cres = 0 /\ cuse = NoUse
    /\ ctxH = <<InitialContext>>
    /\ shells = <<[context |-> 1, jobIdent |-> 0, status |-> Code(0)]>>
    /\ current = 1
    /\ tasks = <<>>
    /\ tickQ = <<>>
    /\ seen = <<>>
    /\ crashed = FALSE
    /\ exited = NoExit
    /\ stack = <<>> /\ body = <<>> /\ ret = -1
    /\ NotifierIdle
    /\ CallIdle
    /\ QioIdle

Next ==
    \/ \E c \in Calls, a \in BOOLEAN :
          Len(tasks) < MaxTasks /\ Exec(c[1], c[2], a)
    \/ \E o \in ObsIds : ListenerAdd(o)
    \/ \E v \in {"false", "true"} : SetThrowFlag(v)
    \/ \E t \in DOMAIN tasks, e, a \in BOOLEAN : InputOpened(t, e, a)
    \/ \E t \in DOMAIN tasks : Drain(t)
    \/ \E t \in DOMAIN tasks, a \in BOOLEAN : ChildError(t, a)
    \/ \E t \in DOMAIN tasks, c \in ExitCodes : ChildClose(t, c)
    \/ \E t \in DOMAIN tasks : ChildSignal(t)
    \/ \E t \in DOMAIN tasks : BodyReturn(t)
    \/ \E t \in DOMAIN tasks : BodyThrow(t)
    \/ Deliver

Spec == Init /\ [][Next]_vars

(***************************************************************************)
(* Shell functions that call exit (SpecExit): programs that call commands  *)
(* and subshells and call shell().exit(code), with no listeners.           *)
(***************************************************************************)
\* The codes exit is called with.
ExitArgs == {0, 3}

\* An exit that throws for every code.
ExitThrowsAlways(code, flag) == TRUE

\* if (code !== 0 && this.context.throwFlag) throw new ExitError(...)
ExitThrows(code, flag) == code # 0 /\ Truthy(flag)

\* shell().exit(code): ShellImpl.exit on the shell current.
ExitCall(code) ==
    /\ Quiet
    /\ shells' = [shells EXCEPT ![current].status = Code(code)]
    /\ exited' = [sh |-> current, code |-> code,
                  raised |-> ExitThrows(code,
                      ctxH[shells[current].context].props["throwFlag"])]
    /\ UNCHANGED <<ctxH, current, tasks, tickQ, seen, crashed, progVars,
                   flattenVars, cloneVars, notifierVars, callVars, qioVars>>

NextExit ==
    \/ \E k \in {"child", "shell"}, a \in BOOLEAN :
          Len(tasks) < MaxTasks /\ Exec(k, <<>>, a)
    \/ \E v \in {"false", "true"} : SetThrowFlag(v)
    \/ \E c \in ExitArgs : ExitCall(c)
    \/ \E t \in DOMAIN tasks, c \in ExitCodes : ChildClose(t, c)
    \/ \E t \in DOMAIN tasks : BodyReturn(t)
    \/ \E t \in DOMAIN tasks : BodyThrow(t)

SpecExit == Init /\ [][NextExit]_vars

\* The function of task t returns while the last call of exit was made on
\* the shell made for it, did not throw, and its code is still the status
\* of that shell.
ReturnsAfterExit(t) ==
    /\ BodyReturn(t)
    /\ exited.sh = tasks[t].sub
    /\ ~exited.raised
    /\ shells[tasks[t].sub].status = Code(exited.code)

\* C12: when the function of a subshell calls exit(code) on its shell
\* without an exception and then returns, the promise of the subshell call
\* resolves with code, whatever the status of the parent shell.
C12_SubshellExitCode ==
    [][\A t \in DOMAIN tasks :
          ReturnsAfterExit(t) =>
              /\ tasks'[t].promise = "resolved"
              /\ tasks'[t].value = Code(exited.code)]_vars

\* C13: exit(code) sets the status of the shell to code, and throws an
\* ExitError exactly when code is not 0 and the throwFlag of the shell's
\* context is true.
C13_ExitSetsStatus ==
    [][\A c \in ExitArgs :
          ExitCall(c) =>
              /\ shells'[current].status = Code(c)
              /\ exited'.raised =
                    (c # 0 /\ ctxH[shells[current].context]
                                  .props["throwFlag"] = "true")]_vars

\* exit(3) was called on a shell whose flag is true: it set the status and
\* threw.
C13_Witness ==
    /\ exited.sh # 0 /\ exited.code = 3 /\ exited.raised
    /\ shells[exited.sh].status = Code(3)

(***************************************************************************)
(* Output redirected and captured (SpecOutput): a program that makes one   *)
(* call, with exec or with output, of a child that writes chunks.          *)
(***************************************************************************)
\* Number of chunks a child writes to its standard output.
MaxChunks == 2

\* The chunks of a 'data' event: one or two characters.
Chunks ==
    LET chars == {"a", NL, SP}
    IN  {<<c>> : c \in chars} \cup {<<c, d>> : c \in chars, d \in chars}

\* The contexts given to the call: none, or output to a path.
OutCalls == {<<>>, <<Only(">", "f.txt")>>}

\* The 'data' handler of child.stdout, added when the task has an output
\* array; child.stdout exists when stdio[1] is 'pipe'.
ChildData(t, chunk) ==
    /\ Event(t, "running")
    /\ tasks[t].kind = "child"
    /\ tasks[t].entry = "output" /\ tasks[t].stdio[2] = "pipe"
    /\ Len(tasks[t].output) < MaxChunks
    /\ Step([St EXCEPT !.tasks[t].output = Append(@, chunk)])

NextOutput ==
    \/ \E c \in OutCalls, a \in BOOLEAN : tasks = <<>> /\ Exec("child", c, a)
    \/ \E c \in OutCalls, a \in BOOLEAN : tasks = <<>> /\ Output("child", c, a)
    \/ \E v \in {"false", "true"} : SetThrowFlag(v)
    \/ \E t \in DOMAIN tasks : OutputOpen(t)
    \/ \E t \in DOMAIN tasks, a \in BOOLEAN : StreamError(t, a)
    \/ \E t \in DOMAIN tasks : Drain(t)
    \/ \E t \in DOMAIN tasks, chunk \in Chunks : ChildData(t, chunk)
    \/ \E t \in DOMAIN tasks, c \in ExitCodes : ChildClose(t, c)

SpecOutput == Init /\ [][NextOutput]_vars

\* The context of task t sends standard output to a path with '>' and sets
\* no other output slot.
OutputToPath(t) ==
    LET c == ctxH[tasks[t].ctx] IN
    /\ c.props[">"] = "f.txt"
    /\ \A p \in {">>", ">&", ">>&"} : ~Truthy(c.props[p])

\* C14: when the context sets '>' to a path, the standard output of the
\* spawned process is the file and nothing is captured, for exec and for
\* output alike.
C14_RedirectedNotCaptured ==
    \A t \in DOMAIN tasks :
        (tasks[t].kind = "child" /\ tasks[t].pc = "running"
            /\ OutputToPath(t)) =>
            /\ tasks[t].stdio[2] = "file"
            /\ tasks[t].output = <<>>

\* C15: output() resolves with the chunks received put one after the other
\* in order, every run of newlines replaced by one space, and trimmed.
C15_CapturedText ==
    \A t \in DOMAIN tasks :
        (tasks[t].entry = "output" /\ tasks[t].out.promise = "resolved") =>
            tasks[t].out.text =
                Trim(ReplaceNewlines(ConcatChunks(tasks[t].output)))

(***************************************************************************)
(* Shell functions running side by side (SpecResult). The code of a        *)
(* function runs from its start, or from the point it resumes at, to its   *)
(* next await or its return with nothing in between; a function called     *)
(* by exec(subshell(f)) runs up to its first await inside that call. Every *)
(* function keeps sh = shell() from its start and calls sh.result on the   *)
(* value of every command it awaits.                                       *)
(***************************************************************************)
\* Number of tasks created in one run under SpecResult.
MaxCalls == 3

\* A result that leaves current as it is.
resultKeepsCurrent(st, this, value) == [st |-> st, value |-> value]

\* A result that records the value as the status of its shell.
resultSetsStatus(st, this, value) ==
    [st |-> [st EXCEPT !.current = this, !.shells[this].status = Code(value)],
     value |-> value]

\* ShellImpl.result(value): current = this; return value
result(st, this, value) ==
    [st |-> [st EXCEPT !.current = this], value |-> value]

\* The entry of body for a task issued by function by (0: the program's
\* top level) while sync told whether current was known to be the issuer's
\* shell; bsh is the shell a shell function keeps, 0 for a child.
Issued(by, bsh, sync) ==
    [by |-> by, bsh |-> bsh, bpc |-> IF bsh = 0 THEN "none" ELSE "run",
     wait |-> 0, sync |-> TRUE, synced |-> sync, paused |-> FALSE]

\* The function being executed.
Top == stack[Len(stack)]
Pop == SubSeq(stack, 1, Len(stack) - 1)

\* The top level calls exec(subshell(f)): run makes the clone current and
\* calls f, which keeps sh = shell().
Launch(accepted) ==
    /\ stack = <<>>
    /\ Len(tasks) < MaxCalls
    /\ Start("exec", "shell", <<>>, accepted)
    /\ body' = Append(body, Issued(0, Len(shells) + 1, TRUE))
    /\ stack' = <<Len(tasks) + 1>>
    /\ ret' = ret

\* The function being executed calls a command, a program or a subshell.
\* The function of a subshell runs inside the call, and when the call
\* returns current is the shell that function left.
BodyCmd(kind, accepted) ==
    /\ stack # <<>>
    /\ Len(tasks) < MaxCalls
    /\ Start("exec", kind, <<>>, accepted)
    /\ LET b == Top
           t == Len(tasks) + 1
       IN  IF kind = "shell"
           THEN /\ body' = Append([body EXCEPT ![b].sync = FALSE],
                                  Issued(b, Len(shells) + 1, body[b].sync))
                /\ stack' = Append(stack, t)
           ELSE /\ body' = Append(body, Issued(b, 0, body[b].sync))
                /\ stack' = stack
    /\ ret' = ret

\* The function being executed awaits a command it has called.
BodyAwait(u) ==
    /\ stack # <<>>
    /\ u \in DOMAIN body /\ body[u].by = Top
    /\ body' = [body EXCEPT ![Top].bpc = "await", ![Top].wait = u]
    /\ stack' = Pop
    /\ UNCHANGED <<ctxH, shells, current, tasks, tickQ, seen, crashed,
                   exited, ret, flattenVars, cloneVars, notifierVars, callVars, qioVars>>

\* The function being executed awaits something that is no command; one
\* such await is made in a run.
BodyPause ==
    /\ stack # <<>>
    /\ \A u \in DOMAIN body : ~body[u].paused
    /\ body' = [body EXCEPT ![Top].bpc = "pause", ![Top].paused = TRUE]
    /\ stack' = Pop
    /\ UNCHANGED <<ctxH, shells, current, tasks, tickQ, seen, crashed,
                   exited, ret, flattenVars, cloneVars, notifierVars, callVars, qioVars>>

\* The function being executed returns.
BodyEnd ==
    /\ stack # <<>>
    /\ body' = [body EXCEPT ![Top].bpc = "done"]
    /\ stack' = Pop
    /\ UNCHANGED <<ctxH, shells, current, tasks, tickQ, seen, crashed,
                   exited, ret, flattenVars, cloneVars, notifierVars, callVars, qioVars>>

\* sh.result(value) called by function b.
ResultBy(b, value) ==
    LET r == result(St, body[b].bsh, value) IN
    /\ Commit(r.st)
    /\ ret' = r.value
    /\ UNCHANGED <<seen, crashed, exited, flattenVars, cloneVars,
                   notifierVars, callVars, qioVars>>

\* sh.result(await u): the command awaited has completed and the function
\* goes on with the value result returns.
Resume(b) ==
    /\ stack = <<>> /\ ~crashed
    /\ b \in DOMAIN body /\ body[b].bpc = "await"
    /\ tasks[body[b].wait].pc = "ended"
    /\ ResultBy(b, tasks[body[b].wait].value.v)
    /\ body' = [body EXCEPT ![b].bpc = "run", ![b].sync = TRUE]
    /\ stack' = <<b>>

\* The function goes on after an await of something that is no command,
\* with current as the code run in between left it.
ResumePause(b) ==
    /\ stack = <<>> /\ ~crashed
    /\ b \in DOMAIN body /\ body[b].bpc = "pause"
    /\ body' = [body EXCEPT ![b].bpc = "run", ![b].sync = FALSE]
    /\ stack' = <<b>>
    /\ UNCHANGED <<ctxH, shells, current, tasks, tickQ, seen, crashed,
                   exited, ret, flattenVars, cloneVars, notifierVars, callVars, qioVars>>

\* The values a function passes to result on its own.
ResultArgs == {0, 1}

\* The function being executed calls sh.result(v) on its own.
BodyResult(v) ==
    /\ stack # <<>>
    /\ ~body[Top].sync
    /\ ResultBy(Top, v)
    /\ body' = [body EXCEPT ![Top].sync = TRUE]
    /\ stack' = stack

\* The callbacks of the event loop, run when no function is executing.
CloseOf(t, c) == stack = <<>> /\ ChildClose(t, c)
ReturnOf(t) ==
    /\ stack = <<>>
    /\ t \in DOMAIN body /\ body[t].bpc = "done"
    /\ BodyReturn(t)

NextResult ==
    \/ \E a \in BOOLEAN : Launch(a)
    \/ \E k \in {"child", "shell"}, a \in BOOLEAN : BodyCmd(k, a)
    \/ \E u \in DOMAIN tasks : BodyAwait(u)
    \/ BodyPause
    \/ BodyEnd
    \/ \E b \in DOMAIN tasks : Resume(b)
    \/ \E b \in DOMAIN tasks : ResumePause(b)
    \/ \E v \in ResultArgs : BodyResult(v)
    \/ \E t \in DOMAIN tasks : CloseOf(t, 0)
    \/ \E t \in DOMAIN tasks : ReturnOf(t)

SpecResult == Init /\ [][NextResult]_vars

\* Task t was issued by a shell function on the shell that function keeps
\* and runs with the context of that shell.
OnOwnShell(t) ==
    /\ tasks[t].sh = body[body[t].by].bsh
    /\ tasks[t].ctx = shells[body[body[t].by].bsh].context

\* C16 as stated: when every shell function keeps sh = shell() from its
\* start and wraps every await of a command in sh.result, every command a
\* function issues is created on its own shell and runs with its context.
C16_OwnSession ==
    \A t \in DOMAIN body : body[t].by # 0 => OnOwnShell(t)

\* C16 amended: the same for the commands a function issues at its start or
\* after sh.result with, since then, no call of a subshell and no await.
C16_OwnSessionAfterResult ==
    \A t \in DOMAIN body : (body[t].by # 0 /\ body[t].synced) => OnOwnShell(t)

\* A function issued a command on its own shell after another function was
\* started and had made its own shell current.
C16_Witness ==
    \E t \in DOMAIN body : \E b2 \in DOMAIN body :
        /\ body[t].by # 0 /\ body[t].synced /\ OnOwnShell(t)
        /\ body[t].by < b2 /\ b2 < t /\ body[b2].bsh # 0

\* What a call of result leaves as it is.
ResultFrame ==
    /\ shells' = shells /\ ctxH' = ctxH /\ tasks' = tasks /\ tickQ' = tickQ

\* C17: sh.result(value) returns value and makes sh the shell current; the
\* status, context, listeners and job counter of sh and every other shell
\* stay as they are.
C17_ResultFrame ==
    [][/\ \A b \in DOMAIN body :
             Resume(b) =>
                 /\ current' = body[b].bsh
                 /\ ret' = tasks[body[b].wait].value.v
                 /\ ResultFrame
       /\ \A v \in ResultArgs :
             BodyResult(v) =>
                 /\ current' = body[Top].bsh
                 /\ ret' = v
                 /\ ResultFrame]_vars

\* A function that started another one has called result with 1: its own
\* shell is current, 1 is returned and the status of every shell is 0.
C17_Witness ==
    /\ stack # <<>> /\ ret = 1
    /\ body[Top].sync
    /\ current = body[Top].bsh
    /\ \E b2 \in DOMAIN body : body[b2].by = Top /\ body[b2].bsh # 0
    /\ \A s \in DOMAIN shells : shells[s].status = Code(0)

(***************************************************************************)
(* Properties of the completion of a task and of its notifications.        *)
(***************************************************************************)
Terminal == {"finished", "failed"}

\* The notifications listener o has received for task t, in order.
Names(t, o) == [i \in DOMAIN seen[t][o] |-> seen[t][o][i].n]

\* The task was made with a context of its own (a context argument).
HasOverride(t) == tasks[t].ctx # shells[tasks[t].sh].context

\* The task ended with a failure: a non-zero exit code or an error.
EndedFailing(t) ==
    /\ tasks[t].pc = "ended"
    /\ tasks[t].value # Code(0)
    /\ tasks[t].value.k # "none"

\* The throwFlag of the shell the task was made on.
ShellFlag(t) ==
    Truthy(ctxH[shells[tasks[t].sh].context].props["throwFlag"])

\* The throwFlag of the context of the task.
TaskFlag(t) == Truthy(ctxH[tasks[t].ctx].props["throwFlag"])

\* C3: when a child process closes with an exit code c # 0 and no signal,
\* the promise of the call rejects with an ExitError whose code is c if
\* throwFlag is true, and resolves with the status c if throwFlag is
\* false; stated for the calls whose context and shell agree on the flag.
C3_ExitCodePolicy ==
    [][\A t \in DOMAIN tasks : \A c \in ExitCodes \ {0} :
          (ChildClose(t, c) /\ ShellFlag(t) = TaskFlag(t)) =>
             IF TaskFlag(t)
             THEN /\ tasks'[t].promise = "rejected"
                  /\ tasks'[t].value = ExitError(t, c)
             ELSE /\ tasks'[t].promise = "resolved"
                  /\ tasks'[t].value = Code(c)]_vars

\* A process has closed with code 2 under a true flag, rejecting the call.
C3_Witness ==
    \E t \in DOMAIN tasks :
        /\ tasks[t].pc = "ended"
        /\ tasks[t].promise = "rejected"
        /\ tasks[t].value = ExitError(t, 2)
        /\ TaskFlag(t) /\ ShellFlag(t)

\* C4: for a call made with a context argument, whether the promise
\* rejects or resolves on a failure (non-zero exit, signal, redirect or
\* spawn error) is decided by the throwFlag of the call's own context.
C4_PolicyOfEffectiveContext ==
    \A t \in DOMAIN tasks :
        (EndedFailing(t) /\ HasOverride(t)) =>
            (tasks[t].promise = "rejected" <=> TaskFlag(t))

\* C5: a failed notification of a task that rejected with an ExitError
\* carries the error the promise rejected with, and a listener that was on
\* the shell when the call was made receives it at most once.
C5_FailedCarriesExitError ==
    \A t \in DOMAIN tasks : \A o \in tasks[t].regs :
        (tasks[t].promise = "rejected" /\ tasks[t].value.k = "ExitError") =>
            /\ \A i \in DOMAIN seen[t][o] :
                  seen[t][o][i].n = "failed" =>
                      seen[t][o][i].arg = tasks[t].value
            /\ Cardinality({i \in DOMAIN seen[t][o] :
                               seen[t][o][i].n = "failed"}) <= 1

\* C6: a notification posted to a listener without the method is skipped:
\* nothing is thrown, so the process never ends on an uncaught TypeError.
C6_MissingMethodSkipped == crashed = FALSE

\* C7: a listener that was on the shell when the call was made receives
\* started for the job before it receives finished or failed for it.
C7_StartedFirst ==
    \A t \in DOMAIN tasks : \A o \in tasks[t].regs :
        \A i \in DOMAIN seen[t][o] :
            seen[t][o][i].n \in Terminal =>
                \E j \in 1..(i - 1) : seen[t][o][j].n = "started"

\* A listener added before the call has received started and then failed
\* for a job whose input redirection failed inside the call itself.
C7_Witness ==
    \E t \in DOMAIN tasks : \E o \in tasks[t].regs :
        /\ tasks[t].value = InputError(t)
        /\ Names(t, o) = <<"started", "failed">>

\* C8: a listener added to the shell while a job is in flight receives
\* neither finished nor failed for that job.
C8_LateListenerSilent ==
    \A t \in DOMAIN tasks : \A o \in ObsIds \ tasks[t].regs :
        \A i \in DOMAIN seen[t][o] : seen[t][o][i].n \notin Terminal

\* In this step task t ends resolving with err, and every finished or failed
\* posted for it is a finished that carries err.
ResolvesWith(t, err) ==
    tasks'[t].pc = "ended" =>
        /\ tasks'[t].promise = "resolved"
        /\ tasks'[t].value = err
        /\ \A i \in DOMAIN tickQ' :
              (tickQ'[i].t = t /\ tickQ'[i].n \in Terminal) =>
                  (tickQ'[i].n = "finished" /\ tickQ'[i].arg = err)

C20_ZeroExit ==
    [][\A t \in DOMAIN tasks :
          ChildClose(t, 0) =>
             /\ tasks'[t].promise = "resolved"
             /\ tasks'[t].value = Code(0)
             /\ shells'[tasks[t].sh].status = Code(0)
             /\ \A i \in DOMAIN tickQ' :
                   (tickQ'[i].t = t /\ tickQ'[i].n \in Terminal) =>
                       (tickQ'[i].n = "finished" /\ tickQ'[i].arg = Code(0))
             /\ \A o \in Range(ctxH[tasks[t].ctx].listeners) :
                   \E i \in DOMAIN tickQ' :
                       tickQ'[i] = [o |-> o, n |-> "finished", t |-> t,
                                    arg |-> Code(0)]]_vars

\* A process has closed with code 0 on a shell and in a context whose
\* throwFlag is true: the promise resolved with 0 and a listener received
\* finished with 0.
C20_Witness ==
    \E t \in DOMAIN tasks : \E o \in ObsIds :
        /\ tasks[t].kind = "child" /\ tasks[t].pc = "ended"
        /\ ShellFlag(t) /\ TaskFlag(t)
        /\ tasks[t].promise = "resolved" /\ tasks[t].value = Code(0)
        /\ \E i \in DOMAIN seen[t][o] :
              seen[t][o][i] = [n |-> "finished", arg |-> Code(0)]

(***************************************************************************)
(* Notifier (notifier.ts 80-165): the listeners of a notifier and the      *)
(* calls of listeningStarted and listeningStopped (SpecNotifier).          *)
(***************************************************************************)
\* Number of calls made on the notifier in one run.
MaxNotifierCalls == 5

\* The listener objects; null is written 0.
NotifierListeners == {1, 2}

\* The position of the first occurrence of listener in listeners, 0 if none.
IndexOf(listeners, listener) ==
    IF \E i \in DOMAIN listeners : listeners[i] = listener
    THEN CHOOSE i \in DOMAIN listeners :
             /\ listeners[i] = listener
             /\ \A j \in 1..(i - 1) : listeners[j] # listener
    ELSE 0

\* listeners.splice(i, 1)
Splice(listeners, i) ==
    SubSeq(listeners, 1, i - 1) \o SubSeq(listeners, i + 1, Len(listeners))

\* A call on the notifier: the listeners it leaves, the hook it calls (as a
\* sequence of at most one name) and what it returns.
NotifierCall(listeners, called, returned) ==
    /\ ncalls < MaxNotifierCalls
    /\ ncalls' = ncalls + 1
    /\ listenersVar' = listeners
    /\ hooks' = hooks \o called
    /\ nret' = returned
    /\ UNCHANGED <<flattenVars, ctxVars, shellVars, callVars, qioVars>>

\* A listenerAdd that calls listeningStarted on every call.
StartedOnAddAlways(n) == TRUE

\* if (this.listenersVar.length === 1) this.listeningStarted()
StartedOnAdd(n) == n = 1

\* Notifier.listenerAdd(listener)
NotifierListenerAdd(listener) ==
    LET listeners == Append(listenersVar, listener) IN
    NotifierCall(listeners,
                 IF StartedOnAdd(Len(listeners)) THEN <<"listeningStarted">>
                 ELSE <<>>,
                 listener)

\* Notifier.listenerDel(listener)
NotifierListenerDel(listener) ==
    LET i == IndexOf(listenersVar, listener) IN
    IF i # 0
    THEN LET listeners == Splice(listenersVar, i) IN
         NotifierCall(listeners,
                      IF Len(listeners) = 0 THEN <<"listeningStopped">>
                      ELSE <<>>,
                      listener)
    ELSE NotifierCall(listenersVar, <<>>, 0)

\* Notifier.listenerDelAll()
NotifierListenerDelAll ==
    IF Len(listenersVar) > 0
    THEN NotifierCall(<<>>, <<"listeningStopped">>, -1)
    ELSE NotifierCall(listenersVar, <<>>, -1)

InitNotifier ==
    /\ cmds = [i \in CmdIds |-> subshell]
    /\ fl = FlattenIdle
    /\ CtxIdle
    /\ ShellIdle
    /\ NotifierIdle
    /\ CallIdle
    /\ QioIdle

NextNotifier ==
    \/ \E l \in NotifierListeners : NotifierListenerAdd(l)
    \/ \E l \in NotifierListeners : NotifierListenerDel(l)
    \/ NotifierListenerDelAll

SpecNotifier == InitNotifier /\ [][NextNotifier]_vars

\* The calls of the hooks alternate, listeningStarted first.
Alternate(calls) ==
    \A i \in DOMAIN calls :
        calls[i] = IF i % 2 = 1 THEN "listeningStarted" ELSE "listeningStopped"

C22_DelAllAlwaysStops ==
    [][NotifierListenerDelAll => hooks' = hooks \o <<"listeningStopped">>]_vars

(***************************************************************************)
(* Redirection (tshell.ts 683-790) and the events that follow the spawn    *)
(* (SpecRedirect): one call with any combination of the output keys set to *)
(* a path, with or without input from a path.                              *)
(***************************************************************************)
OutSlots == {">", ">>", ">&", ">>&", "2>", "2>>"}

\* A context that sets the keys of set to v.
Setting(set, v) == OverrideWith(set, [q \in set |-> v], NoEnv, 0, <<>>)

\* A stream given as a handle: one that is open already.
OpenStream == "<open>"

\* The contexts given to the call: every set of output keys, with and
\* without '<', set to a path; one output key set to an open stream; input
\* from a stream and from an object that is none; the flag cleared together
\* with a path for input or for output.
RedirContexts ==
    {Setting(set, "f.txt") : set \in SUBSET (OutSlots \cup {"<"})}
    \cup {Setting({k}, OpenStream) : k \in {">", ">&", "2>"}}
    \cup {Setting({"<"}, v) : v \in {"<stream>", "<object>"}}
    \cup {OverrideWith({"throwFlag", k},
                       [q \in {"throwFlag", k} |->
                           IF q = "throwFlag" THEN "false" ELSE "f.txt"],
                       NoEnv, 0, <<>>) : k \in {"<", ">"}}

\* The entries of the record of task t that are calls or handlers named e.
Logged(t, e) == {i \in DOMAIN tasks[t].log : tasks[t].log[i].e = e}

\* The 'close' handler of a child process whose task has ended already: on
\* its 'error' event or on the 'error' event of a stream.
ChildCloseLate(t, code) ==
    /\ Event(t, "ended")
    /\ tasks[t].kind = "child"
    /\ Logged(t, "run") # {} /\ Logged(t, "close") = {}
    /\ Step(returnStatus(Log(St, t, "close", ""), t, Code(code)))

\* The 'error' handler of a stream made by checked(), run after the spawn.
StreamErrorLate(t, accepted) ==
    /\ Event(t, "running")
    /\ \E i \in Logged(t, "stream") :
          IsString(JobContext(St, t).props[tasks[t].log[i].slot])
    /\ Step(errorNotify(Log(St, t, "error", "stream"), t, IOError(t),
                        accepted))

NextRedirect ==
    \/ \E c \in RedirContexts, k \in {"child", "shell"}, a \in BOOLEAN :
          tasks = <<>> /\ Exec(k, <<c>>, a)
    \/ tasks = <<>> /\ ListenerAdd(1)
    \/ \E v \in {"false", "true"} : tasks = <<>> /\ SetThrowFlag(v)
    \/ \E t \in DOMAIN tasks, e, a \in BOOLEAN : InputOpened(t, e, a)
    \/ \E t \in DOMAIN tasks : OutputOpen(t)
    \/ \E t \in DOMAIN tasks : ErrorOpen(t)
    \/ \E t \in DOMAIN tasks, a \in BOOLEAN : StreamError(t, a)
    \/ \E t \in DOMAIN tasks, a \in BOOLEAN : StreamErrorLate(t, a)
    \/ \E t \in DOMAIN tasks : Drain(t)
    \/ \E t \in DOMAIN tasks, a \in BOOLEAN : ChildError(t, a)
    \/ \E t \in DOMAIN tasks, c \in ExitCodes : ChildClose(t, c)
    \/ \E t \in DOMAIN tasks, c \in ExitCodes : ChildCloseLate(t, c)
    \/ \E t \in DOMAIN tasks : ChildSignal(t)
    \/ \E t \in DOMAIN tasks : BodyReturn(t)
    \/ \E t \in DOMAIN tasks : BodyThrow(t)
    \/ Deliver

SpecRedirect == Init /\ [][NextRedirect]_vars

ErrSlots == {"2>", "2>>"}

\* Entry i of the record of task t.
Entry(t, i) == tasks[t].log[i]

\* Before entry j of the record of task t, the input step was over: fs.open,
\* if it was called, had called back with a descriptor.
InputDoneBefore(t, j) ==
    \A i \in Logged(t, "fsopen") :
        \E k \in Logged(t, "fd") : i < k /\ k < j

\* Before entry j, every stream of the keys of slots that was taken had
\* emitted 'open'.
OpenedBefore(t, slots, j) ==
    \A i \in Logged(t, "stream") :
        Entry(t, i).slot \in slots =>
            \E k \in Logged(t, "open") :
                i < k /\ k < j /\ Entry(t, k).slot = Entry(t, i).slot

\* C23: the steps of a task run in the order input, output, error, run: no
\* output stream is made before the input step is over, no error stream
\* before the output step is over, and the process is spawned, or the
\* function called, only after the three steps are over.
C23_FixedOrder ==
    \A t \in DOMAIN tasks :
        /\ \A j \in Logged(t, "stream") :
              /\ InputDoneBefore(t, j)
              /\ Entry(t, j).slot \in ErrSlots =>
                     OpenedBefore(t, OutSlots \ ErrSlots, j)
        /\ \A j \in Logged(t, "run") :
              /\ InputDoneBefore(t, j)
              /\ OpenedBefore(t, OutSlots, j)

\* A task with input, output and error redirected to paths is running: the
\* three files were opened one after the other.
C23_Witness ==
    \E t \in DOMAIN tasks :
        /\ tasks[t].pc = "running"
        /\ Logged(t, "fsopen") # {} /\ Logged(t, "fd") # {}
        /\ Cardinality(Logged(t, "stream")) = 2
        /\ Cardinality(Logged(t, "open")) = 2

\* The entries of the record of task t for the failure to open the target
\* of a redirection.
OpenFailures(t) ==
    {i \in Logged(t, "error") : Entry(t, i).slot \in OutSlots \cup {"<"}}

\* C24: when the input or an output target of a redirection fails to open,
\* no later step of the task runs, no process is spawned and no function is
\* called, and the call ends with the I/O error: rejected when the
\* throwFlag is true and resolved when it is false, stated for the calls
\* whose context and shell agree on the flag.
C24_OpenFailureShortCircuits ==
    \A t \in DOMAIN tasks : \A i \in OpenFailures(t) :
        /\ \A j \in DOMAIN tasks[t].log :
              j > i => Entry(t, j).e \in {"write", "drain"}
        /\ tasks[t].pc \in {"drain", "ended"}
        /\ tasks[t].pc = "ended" =>
              /\ tasks[t].value = IOError(t)
              /\ ShellFlag(t) = TaskFlag(t) =>
                     (tasks[t].promise = "rejected" <=> TaskFlag(t))

\* The input of a task was opened and its output target then failed to
\* open: the call has rejected with the I/O error and nothing was spawned.
C24_Witness ==
    \E t \in DOMAIN tasks :
        /\ Logged(t, "fd") # {}
        /\ \E i \in OpenFailures(t) : Entry(t, i).slot = ">"
        /\ Logged(t, "run") = {}
        /\ tasks[t].pc = "ended" /\ tasks[t].promise = "rejected"
        /\ tasks[t].value = IOError(t)

\* Key k is set in the context of task t.
IsSet(t, k) == Truthy(ctxH[tasks[t].ctx].props[k])

Combined(t) == IsSet(t, ">>&") \/ IsSet(t, ">&")

\* The keys whose targets the redirections of task t are to open.
TargetsOf(t) ==
    IF Combined(t) THEN {IF IsSet(t, ">>&") THEN ">>&" ELSE ">&"}
    ELSE (IF IsSet(t, ">>") THEN {">>"}
          ELSE IF IsSet(t, ">") THEN {">"} ELSE {})
         \cup (IF IsSet(t, "2>>") THEN {"2>>"}
               ELSE IF IsSet(t, "2>") THEN {"2>"} ELSE {})

\* The keys whose streams task t has taken.
StreamsOf(t) == {Entry(t, i).slot : i \in Logged(t, "stream")}

\* C25: for every combination of output keys: with '>>&' or '>&' set, one
\* target is opened, that of '>>&' when both are set, and it is used for
\* standard output and standard error, the other keys being ignored;
\* otherwise the target of '>>', or else of '>', is opened for standard
\* output alone and the target of a key for standard error, if set, for
\* standard error alone.
C25_OutputSlots ==
    \A t \in DOMAIN tasks :
        /\ StreamsOf(t) \subseteq TargetsOf(t)
        /\ Cardinality(Logged(t, "stream")) = Cardinality(StreamsOf(t))
        /\ Logged(t, "run") # {} =>
              /\ StreamsOf(t) = TargetsOf(t)
              /\ tasks[t].stdio[2] # "stdout" <=>
                     (TargetsOf(t) \ ErrSlots # {})
              /\ tasks[t].stdio[3] # "stderr" <=>
                     (Combined(t) \/ TargetsOf(t) \cap ErrSlots # {})

\* A task with every output key set has run with the target of '>>&' alone
\* as its standard output and standard error.
C25_Witness ==
    \E t \in DOMAIN tasks :
        /\ \A k \in OutSlots : IsSet(t, k)
        /\ Logged(t, "run") # {}
        /\ StreamsOf(t) = {">>&"}
        /\ tasks[t].stdio[2] = "file" /\ tasks[t].stdio[3] = "file"

\* C26 as stated: started is posted at the entry to the run step: after the
\* input, output and error steps are over and before the process is spawned
\* or the function called.
C26_StartedAtRun ==
    \A t \in DOMAIN tasks : \A j \in Logged(t, "started") :
        /\ InputDoneBefore(t, j)
        /\ OpenedBefore(t, OutSlots, j)
        /\ \A r \in Logged(t, "run") : j < r

\* C26 amended: started is posted once, at the entry to exec: before the
\* input step begins, and so before the process is spawned or the function
\* called.
C26_StartedAtExec ==
    \A t \in DOMAIN tasks :
        /\ Logged(t, "started") = {1}
        /\ \A o \in tasks[t].regs :
              \/ \E i \in DOMAIN tickQ :
                    tickQ[i].t = t /\ tickQ[i].o = o /\ tickQ[i].n = "started"
              \/ seen[t][o] # <<>> /\ seen[t][o][1].n = "started"

\* A listener has received started for a job whose input file is not open
\* yet.
C26_Witness ==
    \E t \in DOMAIN tasks :
        /\ tasks[t].pc = "openIn"
        /\ tasks[t].log = <<Ev("started", ""), Ev("fsopen", "<")>>
        /\ seen[t][1] = <<[n |-> "started", arg |-> NoArg]>>

\* The finished and failed notifications listener o has received for task t.
Outcomes(t, o) == {i \in DOMAIN seen[t][o] : seen[t][o][i].n \in Terminal}

\* C27: a job has at most one outcome: every listener receives at most one
\* finished or failed for it, also when the child process emits 'error' and
\* then 'close', or a stream of a redirection emits 'error' after the spawn.
C27_OneOutcome ==
    \A t \in DOMAIN tasks : \A o \in tasks[t].regs :
        Cardinality(Outcomes(t, o)) <= 1

\* C28: when a process is ended by a signal the outcome is a SignalError
\* with the command and the signal, never a status; when the throwFlag of
\* the shell is true the promise rejects with it and failed is posted with
\* that error to every listener of the job.
C28_SignalOutcome ==
    [][\A t \in DOMAIN tasks :
          ChildSignal(t) =>
             /\ tasks'[t].value.k = "SignalError"
             /\ tasks'[t].value.v = SIGTERM /\ tasks'[t].value.of = t
             /\ shells'[tasks[t].sh].status = tasks'[t].value
             /\ ShellFlag(t) =>
                   /\ tasks'[t].promise = "rejected"
                   /\ \A i \in DOMAIN tickQ' :
                         (tickQ'[i].t = t /\ tickQ'[i].n \in Terminal) =>
                             /\ tickQ'[i].n = "failed"
                             /\ tickQ'[i].arg = tasks'[t].value
                   /\ \A o \in Range(ctxH[tasks[t].ctx].listeners) :
                         \E i \in DOMAIN tickQ' :
                             /\ tickQ'[i].t = t /\ tickQ'[i].o = o
                             /\ tickQ'[i].n = "failed"]_vars

\* A process was ended by a signal on a shell whose throwFlag is true: the
\* promise rejected with the SignalError and a listener received failed
\* with it.
C28_Witness ==
    \E t \in DOMAIN tasks : \E o \in ObsIds :
        /\ tasks[t].pc = "ended" /\ ShellFlag(t)
        /\ tasks[t].promise = "rejected"
        /\ tasks[t].value.k = "SignalError" /\ tasks[t].value.v = SIGTERM
        /\ \E i \in DOMAIN seen[t][o] :
              seen[t][o][i] = [n |-> "failed", arg |-> tasks[t].value]

\* Task t takes this step on an error of a redirection or of the spawn;
\* accepted is what the write of the message, if one is made, returns.
ErrorEvent(t, accepted) ==
    \/ InputOpened(t, TRUE, accepted)
    \/ StreamError(t, accepted)
    \/ StreamErrorLate(t, accepted)
    \/ ChildError(t, accepted)

\* The entries this step adds to the record of task t.
Added(t) == SubSeq(tasks'[t].log, Len(tasks[t].log) + 1, Len(tasks'[t].log))

AwaitsHandle(t) ==
    /\ Logged(t, "stream") # {}
    /\ ctxH[tasks[t].ctx].props[Awaited(t)] = OpenStream

\* C30: a task whose output key holds a stream that is open already takes
\* it as ready: it goes on to run without waiting for an 'open' event.
C30_HandleReady ==
    \A t \in DOMAIN tasks :
        tasks[t].pc \in {"openOut", "openErr"} => ~AwaitsHandle(t)

(***************************************************************************)
(* Calls of commands held in the command table (SpecTask): ShellImpl.task  *)
(* flattens the command before it makes the task.                          *)
(***************************************************************************)
\* The command tables of SpecTask: command i is a program with bound
\* arguments, a command on the next command of the table (the last one on
\* the first), or a subshell.
TaskTables ==
    [CmdIds -> {"string", "cmd", "subshell"}]

TableOf(kinds) ==
    [i \in CmdIds |->
        CASE kinds[i] = "string" -> cmd(StrProg(i), <<10 * i, 10 * i + 1>>)
          [] kinds[i] = "cmd" ->
                cmd(CmdProg((i % NumCmds) + 1), <<10 * i, 10 * i + 1>>)
          [] OTHER -> subshell]

RECURSIVE FlattenWalk(_, _, _)
\* The while loop of flatten and the statements after it.
FlattenWalk(p, list, visited) ==
    IF ~LoopCond(p)
    THEN [threw |-> FALSE, prog |-> p,
          args |-> ConcatReversed(list, Len(list))]
    ELSE IF p.c \in visited
    THEN [threw |-> TRUE, prog |-> p, args |-> <<>>]
    ELSE FlattenWalk(cmds[p.c].prog, Push(list, cmds[p.c].args),
                     visited \cup {p.c})

\* flatten(prog, args, job): what it leaves in job, or that it threw.
flatten(prog, args, defined) ==
    FlattenWalk(prog, IF defined THEN <<args>> ELSE <<>>, {})

\* new Error('Command reference cycle'), thrown in a call on shell sh.
CycleError(sh) == [err |-> "cycle", sh |-> sh]

\* exec(A, ...x, context) for command a of the table: ShellImpl.task counts
\* the job, clones the context and calls flatten, whose exception ends
\* task and exec; otherwise the task is made for job.prog and executed.
ExecCmd(a, x, context, accepted) ==
    LET f == flatten(CmdProg(a), x, x # <<>>) IN
    IF f.threw
    THEN /\ Quiet
         /\ shells' = [shells EXCEPT ![current].jobIdent = @ + 1]
         /\ ctxH' = IF context = <<>> THEN ctxH
                    ELSE Append(ctxH,
                                clone(ctxH[shells[current].context], context))
         /\ thrown' = Append(thrown, CycleError(current))
         /\ UNCHANGED <<current, tasks, tickQ, seen, crashed, exited, cl,
                        progVars, flattenVars, cloneVars, notifierVars,
                        qioVars>>
    ELSE Exec(IF f.prog.k = "string" THEN "child" ELSE "shell",
              context, accepted)

\* The contexts given to a call of SpecTask: none, and the flag cleared.
TaskContexts == {<<>>, <<Only("throwFlag", "false")>>}

InitTask ==
    /\ cmds \in {TableOf(kinds) : kinds \in TaskTables}
    /\ fl = FlattenIdle
    /\ over = <<>> /\ cres = 0 /\ cuse = NoUse
    /\ ctxH = <<InitialContext>>
    /\ shells = <<[context |-> 1, jobIdent |-> 0, status |-> Code(0)]>>
    /\ current = 1
    /\ tasks = <<>>
    /\ tickQ = <<>>
    /\ seen = <<>>
    /\ crashed = FALSE
    /\ exited = NoExit
    /\ stack = <<>> /\ body = <<>> /\ ret = -1
    /\ NotifierIdle
    /\ CallIdle
    /\ QioIdle

NextTask ==
    \/ \E a \in CmdIds, x \in CallArgs, c \in TaskContexts, acc \in BOOLEAN :
          Len(tasks) + Len(thrown) < MaxTasks /\ ExecCmd(a, x, c, acc)
    \/ tasks = <<>> /\ ListenerAdd(1)
    \/ \E t \in DOMAIN tasks, c \in ExitCodes : ChildClose(t, c)
    \/ \E t \in DOMAIN tasks : BodyReturn(t)
    \/ \E t \in DOMAIN tasks : BodyThrow(t)
    \/ Deliver

SpecTask == InitTask /\ [][NextTask]_vars

\* The call exec(A, ...x, context) is made, on a shell whose flag is set
\* and with no override of it, for a command whose chain has a cycle.
CyclicCall(a, x, c, acc) ==
    /\ ExecCmd(a, x, c, acc)
    /\ flatten(CmdProg(a), x, x # <<>>).threw
    /\ Truthy(ctxH[shells[current].context].props["throwFlag"])
    /\ c = <<>>

\* C31: with throwFlag true, a call of a command whose chain has a cycle
\* raises no exception to its caller; it returns a promise, that of a new
\* task, which is rejected, and the failed notification is posted to the
\* listeners.
C31_CycleReported ==
    [][\A a \in CmdIds, x \in CallArgs, c \in TaskContexts, acc \in BOOLEAN :
          CyclicCall(a, x, c, acc) =>
              /\ thrown' = thrown
              /\ Len(tasks') = Len(tasks) + 1
              /\ tasks'[Len(tasks')].promise = "rejected"
              /\ \A o \in Range(ctxH[shells[current].context].listeners) :
                    \E i \in DOMAIN tickQ' :
                        tickQ'[i].n = "failed" /\ tickQ'[i].o = o]_vars

(***************************************************************************)
(* Shell functions that never call result (SpecChain, SpecPlain). After    *)
(* an await the function goes on with current as the completion of the     *)
(* task awaited, or whatever ran in between, left it. The continuation of  *)
(* an await and the handlers ShellTask.run gives to then are promise        *)
(* reactions: they run before any callback of the event loop.              *)
(***************************************************************************)
\* The continuation of function b is queued: the promise it awaits has
\* settled.
Ready(b) ==
    /\ body[b].bpc = "await"
    /\ tasks[body[b].wait].pc = "ended"

\* The handler run gave to then is queued: the function of task t has
\* returned or thrown.
Finished(t) ==
    /\ body[t].bpc \in {"done", "threw"}
    /\ tasks[t].pc = "running"

\* No function is executing and no promise reaction is queued.
Calm ==
    /\ stack = <<>> /\ ~crashed
    /\ \A b \in DOMAIN body : ~Ready(b) /\ ~Finished(b)

\* Function b has called a command it has not awaited yet.
Owes(b) == \E u \in DOMAIN body : body[u].by = b /\ u > body[b].wait

\* A continuation that makes the shell the function keeps current.
ResumeRestores(b) == body[b].bsh

\* The shell current when function b goes on after an await: nothing
\* assigns it.
ResumeCurrent(b) == current

\* await u is over in function b: it goes on, or, when the promise was
\* rejected and the function does not catch the exception, it ends by
\* throwing it.
ResumePlain(b, caught) ==
    /\ stack = <<>> /\ ~crashed
    /\ b \in DOMAIN body /\ Ready(b)
    /\ caught \/ tasks[body[b].wait].promise = "rejected"
    /\ current' = ResumeCurrent(b)
    /\ IF caught
       THEN /\ body' = [body EXCEPT ![b].bpc = "run", ![b].sync = FALSE]
            /\ stack' = <<b>>
       ELSE /\ body' = [body EXCEPT ![b].bpc = "threw"]
            /\ stack' = <<>>
    /\ UNCHANGED <<ctxH, shells, tasks, tickQ, seen, crashed,
                   exited, ret, flattenVars, cloneVars, notifierVars,
                   callVars, qioVars>>

\* The function goes on after an await of something that is no command.
ResumeLater(b) ==
    /\ Calm
    /\ b \in DOMAIN body /\ body[b].bpc = "pause"
    /\ current' = ResumeCurrent(b)
    /\ body' = [body EXCEPT ![b].bpc = "run", ![b].sync = FALSE]
    /\ stack' = <<b>>
    /\ UNCHANGED <<ctxH, shells, tasks, tickQ, seen, crashed,
                   exited, ret, flattenVars, cloneVars, notifierVars,
                   callVars, qioVars>>

\* The function being executed awaits something that is no command; a
\* function does so once.
BodyWait ==
    /\ stack # <<>>
    /\ ~body[Top].paused
    /\ body' = [body EXCEPT ![Top].bpc = "pause", ![Top].paused = TRUE]
    /\ stack' = Pop
    /\ UNCHANGED <<ctxH, shells, current, tasks, tickQ, seen, crashed,
                   exited, ret, flattenVars, cloneVars, notifierVars,
                   callVars, qioVars>>

\* The function being executed throws.
BodyFail ==
    /\ stack # <<>>
    /\ body' = [body EXCEPT ![Top].bpc = "threw"]
    /\ stack' = Pop
    /\ UNCHANGED <<ctxH, shells, current, tasks, tickQ, seen, crashed,
                   exited, ret, flattenVars, cloneVars, notifierVars,
                   callVars, qioVars>>

\* The rejection handler run gave to then: this.returnError(this.sh, err).
ThrowOf(t) ==
    /\ stack = <<>>
    /\ t \in DOMAIN body /\ body[t].bpc = "threw"
    /\ BodyThrow(t)

\* The 'close' handler of a child process, with exit code c.
ClosePlain(t, c) == Calm /\ ChildClose(t, c)

\* The exit codes of the child processes of these programs.
PlainCodes == {0, 1}

\* A single path of execution: every call is awaited at once, by the top
\* level too, so a function calls, pauses, returns or throws only when it
\* owes no await, and the top level calls only when every task has ended.
NextChain ==
    \/ \E a \in BOOLEAN :
          Calm /\ (\A t \in DOMAIN tasks : tasks[t].pc = "ended") /\ Launch(a)
    \/ \E k \in {"child", "shell"}, a \in BOOLEAN :
          stack # <<>> /\ ~Owes(Top) /\ BodyCmd(k, a)
    \/ \E u \in DOMAIN tasks :
          stack # <<>> /\ u > body[Top].wait /\ BodyAwait(u)
    \/ stack # <<>> /\ ~Owes(Top) /\ BodyWait
    \/ stack # <<>> /\ ~Owes(Top) /\ BodyEnd
    \/ stack # <<>> /\ ~Owes(Top) /\ BodyFail
    \/ \E b \in DOMAIN tasks, c \in BOOLEAN : ResumePlain(b, c)
    \/ \E b \in DOMAIN tasks : ResumeLater(b)
    \/ \E t \in DOMAIN tasks, c \in PlainCodes : ClosePlain(t, c)
    \/ \E t \in DOMAIN tasks : ReturnOf(t)
    \/ \E t \in DOMAIN tasks : ThrowOf(t)

SpecChain == Init /\ [][NextChain]_vars

\* Function b is at a point where it can call shell(): it is the function
\* being executed and is not between a call and the await of that call.
AtLeisure(b) == stack # <<>> /\ Top = b /\ ~Owes(b)

\* The handler of the promise of the function of task t runs.
Settles(t) == ReturnOf(t) \/ ThrowOf(t)

NextPlain ==
    \/ \E a \in BOOLEAN : Launch(a)
    \/ \E a \in BOOLEAN : BodyCmd("child", a)
    \/ \E u \in DOMAIN tasks :
          stack # <<>> /\ u > body[Top].wait /\ BodyAwait(u)
    \/ BodyWait
    \/ BodyEnd
    \/ stack # <<>> /\ SetThrowFlag("false")
    \/ \E b \in DOMAIN tasks : ResumePlain(b, TRUE)
    \/ \E b \in DOMAIN tasks : ResumeLater(b)
    \/ \E t \in DOMAIN tasks : ClosePlain(t, 0)
    \/ \E t \in DOMAIN tasks : ReturnOf(t)

SpecPlain == Init /\ [][NextPlain]_vars

\* Function b goes on after an await.
Resumes(b) == ResumePlain(b, TRUE) \/ ResumeLater(b)

\* C33: nothing makes the shell of a function current when the function
\* goes on after an await: shell() gives it the shell the last subshell
\* entered or the last task completed left current; the command it calls
\* next is created on that shell with that shell's context, and a change it
\* makes to shell().context changes the context of that shell and no other.
C33_ResumesOnCurrent ==
    [][/\ \A b \in DOMAIN body : Resumes(b) => current' = current
       /\ \A t \in DOMAIN tasks' \ DOMAIN tasks :
             /\ tasks'[t].sh = current
             /\ tasks'[t].ctx = shells[current].context
       /\ (stack # <<>> /\ SetThrowFlag("false")) =>
             \A c \in DOMAIN ctxH :
                 IF c = shells[current].context
                 THEN ctxH'[c].props["throwFlag"] = "false"
                 ELSE ctxH'[c] = ctxH[c]]_vars

\* Two subshells called by the top level are running; the function of one
\* of them has gone on after an await while the clone made for the other
\* was current, has cleared the flag of shell().context, which is the
\* other's, and has called a command, which is a task of the other's clone.
C33_Witness ==
    \E b1, b2 \in DOMAIN body : \E t \in DOMAIN body :
        /\ b1 # b2 /\ body[b1].by = 0 /\ body[b2].by = 0
        /\ tasks[b1].pc = "running" /\ tasks[b2].pc = "running"
        /\ body[t].by = b1 /\ t > b2
        /\ body[b1].paused \/ body[b1].wait # 0
        /\ tasks[t].sh = body[b2].bsh
        /\ tasks[t].sh # body[b1].bsh
        /\ ~Truthy(ctxH[shells[body[b2].bsh].context].props["throwFlag"])
        /\ Truthy(ctxH[shells[body[b1].bsh].context].props["throwFlag"])

\* The tasks made on shell s, that is the jobs with job.shell = s.
JobsOf(s) == {t \in DOMAIN tasks : tasks[t].sh = s}

Completes(t) ==
    /\ t \in DOMAIN tasks'
    /\ tasks'[t].promise # "pending"
    /\ t \in DOMAIN tasks => tasks[t].promise = "pending"

\* A string as a value a promise resolves with.
Text(s) == [k |-> "string", v |-> s, of |-> 0]

\* What the call of task t delivers to its caller: the value the promise
\* of exec settles with; for output() the captured text it resolves with,
\* or the error it rejects with.
Delivered(t) ==
    IF tasks[t].entry = "exec" THEN tasks[t].value
    ELSE IF tasks[t].out.promise = "resolved" THEN Text(tasks[t].out.text)
    ELSE tasks[t].out.err

MaxLen == 2
\* Largest number of arguments.
MaxArgv == 1

\* const dq = '"', const sq = "'", and the backslash of the replacement.
DQ == "DQ"
SQ == "SQ"
BS == "BS"

\* The characters of a program name or argument.
Chars == {DQ, SQ, SP, "a"}

\* The strings of at most n characters.
StringsTo(n) == UNION {[1..k -> Chars] : k \in 0..n}

\* s.indexOf(c) >= 0
Has(s, c) == \E i \in DOMAIN s : s[i] = c

RECURSIVE EscapeSq(_)
\* s.replace(/'/g, "\\'")
EscapeSq(s) ==
    IF s = <<>> THEN <<>>
    ELSE (IF Head(s) = SQ THEN <<BS, SQ>> ELSE <<Head(s)>>)
         \o EscapeSq(Tail(s))

\* A quoteIf that looks for a single quote or a space first.
quoteIfDoubleFirst(s) ==
    IF Has(s, SQ) \/ Has(s, SP)
    THEN <<DQ>> \o s \o <<DQ>>
    ELSE IF Has(s, DQ)
    THEN <<SQ>> \o s \o <<SQ>>
    ELSE s

\* quoteIf(s)
quoteIf(s) ==
    IF Has(s, DQ)
    THEN <<SQ>> \o (IF Has(s, SQ) THEN EscapeSq(s) ELSE s) \o <<SQ>>
    ELSE IF Has(s, SQ) \/ Has(s, SP)
    THEN <<DQ>> \o s \o <<DQ>>
    ELSE s

\* cmdline(prog, argv): [quoteIf(prog), ...argv.map(quoteIf)].join(' ')
Cmdline ==
    /\ cl.pc = "call"
    /\ LET parts == <<quoteIf(cl.prog)>>
                    \o [i \in DOMAIN cl.argv |-> quoteIf(cl.argv[i])]
       IN  cl' = [cl EXCEPT !.pc = "done", !.parts = parts,
                            !.line = JoinWith(parts, <<SP>>)]
    /\ UNCHANGED <<flattenVars, ctxVars, shellVars, notifierVars, thrown,
                   qioVars>>

InitCmdline ==
    /\ cmds = [i \in CmdIds |-> subshell]
    /\ fl = FlattenIdle
    /\ CtxIdle
    /\ ShellIdle
    /\ NotifierIdle
    /\ thrown = <<>>
    /\ QioIdle
    /\ \E p \in StringsTo(MaxLen), n \in 0..MaxArgv :
          \E a \in [1..n -> StringsTo(MaxLen)] :
              cl = [NoLine EXCEPT !.pc = "call", !.prog = p, !.argv = a]

NextCmdline == Cmdline

SpecCmdline == InitCmdline /\ [][NextCmdline]_vars

\* The number of single quotes among the first n characters of e.
QuotesIn(e, n) == Cardinality({i \in 1..n : e[i] = SQ})

\* r is e between single quotes, every character of e in its place and
\* every single quote of e with a backslash before it.
EscapedInSingle(e, r) ==
    /\ Len(r) = Len(e) + QuotesIn(e, Len(e)) + 2
    /\ r[1] = SQ /\ r[Len(r)] = SQ
    /\ \A i \in DOMAIN e :
          LET j == 1 + i + QuotesIn(e, i) IN
          /\ r[j] = e[i]
          /\ e[i] = SQ => r[j - 1] = BS

\* r is what element e is rendered as.
Rendered(e, r) ==
    IF \E i \in DOMAIN e : e[i] = DQ
    THEN EscapedInSingle(e, r)
    ELSE IF \E i \in DOMAIN e : e[i] \in {SQ, SP}
    THEN r = <<DQ>> \o e \o <<DQ>>
    ELSE r = e

RECURSIVE StartOf(_, _)
\* The number of characters of a line before element i of parts, when one
\* character stands between two elements.
StartOf(parts, i) ==
    IF i = 1 THEN 0 ELSE StartOf(parts, i - 1) + Len(parts[i - 1]) + 1

\* C36: in the command line, the program and every argument are rendered
\* by one rule: between single quotes, with a backslash before each single
\* quote, when the element has a double quote; else between double quotes
\* when it has a single quote or a space; else as it is. The rendered
\* elements follow one another, program first, with one space between
\* two of them.
C36_QuotedLine ==
    cl.pc = "done" =>
        LET els == <<cl.prog>> \o cl.argv
            n == Len(els)
        IN  /\ Len(cl.parts) = n
            /\ \A i \in 1..n : Rendered(els[i], cl.parts[i])
            /\ Len(cl.line) = StartOf(cl.parts, n) + Len(cl.parts[n])
            /\ \A i \in 1..n :
                  /\ \A j \in DOMAIN cl.parts[i] :
                        cl.line[StartOf(cl.parts, i) + j] = cl.parts[i][j]
                  /\ i > 1 => cl.line[StartOf(cl.parts, i)] = SP

\* The line of a program with a space in its name and an argument with a
\* double quote and a single quote.
C36_Witness ==
    /\ cl.pc = "done"
    /\ cl.prog = <<"a", SP>>
    /\ cl.argv = << <<DQ, SQ>> >>
    /\ cl.line = <<DQ, "a", SP, DQ, SP, SQ, DQ, BS, SQ, SQ>>

\* The number of times o is in the list ls.
Times(ls, o) == Cardinality({i \in DOMAIN ls : ls[i] = o})

\* ShellTask.run makes the clone for task t in this step.
Enters(t) ==
    /\ t \in DOMAIN tasks'
    /\ tasks'[t].sub # 0
    /\ t \in DOMAIN tasks => tasks[t].sub = 0

\* C37: the listener list of the shell made for a subshell holds every
\* listener of the shell the subshell was called on exactly once.
C37_NoDuplicateObservers ==
    [][\A t \in DOMAIN tasks' :
          Enters(t) =>
              \A o \in Range(ctxH[shells[tasks'[t].sh].context].listeners) :
                  Times(ctxH'[shells'[tasks'[t].sub].context].listeners, o)
                      = 1]_vars

(***************************************************************************)
(* Functions that change shell().context (SpecConfine), on a single path   *)
(* of execution: a function clears the flag, then sets an environment      *)
(* entry, then adds a listener, then removes the listener its shell got    *)
(* from the shell it was called on. Every step of a function is taken once *)
(* the callbacks queued with nextTick have run.                            *)
(***************************************************************************)
\* The context of the shell current.
CurrentContext == ctxH[shells[current].context]

\* shell().context.env[k] = v
SetEnv(k, v) ==
    /\ Quiet
    /\ CurrentContext.env[k] # v
    /\ ctxH' = [ctxH EXCEPT ![shells[current].context].env[k] = v]
    /\ UNCHANGED <<shellVars, flattenVars, cloneVars, notifierVars, callVars, qioVars>>

NextConfine ==
    \/ tasks = <<>> /\ ListenerAdd(1)
    \/ \E a \in BOOLEAN :
          Calm /\ (\A t \in DOMAIN tasks : tasks[t].pc = "ended") /\ Launch(a)
    \/ \E k \in {"child", "shell"}, a \in BOOLEAN :
          stack # <<>> /\ ~Owes(Top) /\ BodyCmd(k, a)
    \/ \E u \in DOMAIN tasks :
          Quiet /\ stack # <<>> /\ u > body[Top].wait /\ BodyAwait(u)
    \/ Quiet /\ stack # <<>> /\ ~Owes(Top) /\ BodyEnd
    \/ stack # <<>> /\ ~Owes(Top) /\ SetThrowFlag("false")
    \/ /\ stack # <<>> /\ ~Owes(Top)
       /\ ~Truthy(CurrentContext.props["throwFlag"])
       /\ SetEnv("K2", "v2")
    \/ /\ stack # <<>> /\ ~Owes(Top)
       /\ CurrentContext.env["K2"] = "v2"
       /\ ListenerAdd(2)
    \/ /\ stack # <<>> /\ ~Owes(Top)
       /\ 2 \in Range(CurrentContext.listeners)
       /\ ListenerDel(1)
    \/ \E b \in DOMAIN tasks, c \in BOOLEAN : Quiet /\ ResumePlain(b, c)
    \/ \E t \in DOMAIN tasks, c \in PlainCodes : ClosePlain(t, c)
    \/ \E t \in DOMAIN tasks : Quiet /\ ReturnOf(t)
    \/ \E t \in DOMAIN tasks : Quiet /\ ThrowOf(t)
    \/ Deliver

SpecConfine == Init /\ [][NextConfine]_vars

\* The context of the shell the subshell of task t was called on.
ParentContext(t) == ctxH[shells[tasks[t].sh].context]

\* C38: from the call of a subshell to the step that settles its promise,
\* that step included, no step changes the context of the shell the
\* subshell was called on: its properties, its environment and its
\* listener list stay as they were before the call, whatever the function
\* does to shell().context.
C38_ParentContextKept ==
    [][/\ \A t \in DOMAIN tasks' \ DOMAIN tasks :
             tasks'[t].kind = "shell" =>
                 ctxH'[shells[current].context] = CurrentContext
       /\ \A t \in DOMAIN tasks :
             (tasks[t].kind = "shell" /\ tasks[t].pc = "running") =>
                 /\ shells'[tasks[t].sh].context = shells[tasks[t].sh].context
                 /\ ctxH'[shells[tasks[t].sh].context] = ParentContext(t)]_vars

\* A subshell has completed whose function cleared the flag, set K2, added
\* listener 2 and removed listener 1 on the shell made for it, while the
\* context of the top-level shell is the initial one with listener 1.
C38_Witness ==
    \E t \in DOMAIN tasks :
        /\ tasks[t].kind = "shell" /\ tasks[t].pc = "ended" /\ tasks[t].sh = 1
        /\ LET c == ctxH[shells[tasks[t].sub].context] IN
           /\ c.props["throwFlag"] = "false"
           /\ c.env["K2"] = "v2"
           /\ 2 \in Range(c.listeners)
           /\ Times(c.listeners, 1) < 2
        /\ ctxH[1] = [InitialContext EXCEPT !.listeners = <<1>>]
        /\ current = 1

(***************************************************************************)
(* The queue client (qio.ts 66-493): a Channel and the Connection it       *)
(* listens to, both notifiers, and the broker's side of them.  A call of   *)
(* the client runs to its end before any callback of the broker does.      *)
(***************************************************************************)
\* Operations, receivers and listeners given to the channel in one run.
MaxOps == 2
\* Calls of connect in one run, retries included.
MaxConnects == 3
\* options.retryCount
RetryCount == 1

\* The client's objects, as the calls below pass them along.
Qio == [channel |-> channel, connection |-> connection,
        attempts |-> attempts, broker |-> broker, ran |-> ran]

QioCommit(q) ==
    /\ q.broker.n <= MaxConnects
    /\ channel' = q.channel
    /\ connection' = q.connection
    /\ attempts' = q.attempts
    /\ broker' = q.broker
    /\ ran' = q.ran
    /\ UNCHANGED <<flattenVars, ctxVars, shellVars, notifierVars, callVars>>

\* The listener Channel.open registers for operation n: its opened runs the
\* operation and removes the listener.
OneShot(n) == [id |-> n, once |-> TRUE, f |-> TRUE]
\* The listener Channel.listen registers for receiver n: its opened runs it.
Lasting(n) == [id |-> n, once |-> FALSE, f |-> TRUE]
\* A listener of the client's own, here one without an opened method.
Own(n) == [id |-> n, once |-> FALSE, f |-> FALSE]

\* Connection.connect(count): amqp.connect is called and its callback is
\* pending.
connect(q, count) ==
    [q EXCEPT !.attempts = @ \cup {[n |-> q.broker.n + 1, count |-> count,
                                    at |-> "connect"]},
              !.broker.n = @ + 1]

RECURSIVE listenerAdd(_, _, _)
\* listeningStarted of the notifier who: a Channel adds itself to the
\* listeners of its connection, a Connection without a conn connects.
listeningStarted(q, who) ==
    IF who = "channel"
    THEN listenerAdd(q, "connection", "channel")
    ELSE IF q.connection.conn # 0 THEN q ELSE connect(q, 0)

\* Notifier.listenerAdd on the notifier who.
listenerAdd(q, who, listener) ==
    LET q1 == [q EXCEPT ![who].listeners = Append(@, listener)]
    IN  IF Len(q1[who].listeners) = 1 THEN listeningStarted(q1, who) ELSE q1

RECURSIVE listenerDel(_, _, _)
\* listeningStopped of the notifier who: a Channel removes itself from the
\* listeners of its connection, a Connection does nothing.
listeningStopped(q, who) ==
    IF who = "channel" THEN listenerDel(q, "connection", "channel") ELSE q

\* Notifier.listenerDel on the notifier who: the entry is spliced out of
\* the array in place.
listenerDel(q, who, listener) ==
    LET i == IndexOf(q[who].listeners, listener)
        q1 == [q EXCEPT ![who].listeners = Splice(@, i)]
    IN  IF i = 0 THEN q
        ELSE IF Len(q1[who].listeners) = 0 THEN listeningStopped(q1, who)
        ELSE q1

\* What post does with one listener of the channel for opened: a listener
\* without the method is passed over, the others run their operation or
\* receiver, and a one-shot listener then removes itself.
opened(q, listener) ==
    LET q1 == [q EXCEPT !.ran = Append(@, listener.id)]
    IN  IF ~listener.f THEN q
        ELSE IF listener.once THEN listenerDel(q1, "channel", listener)
        ELSE q1

\* The step of the array iterator post's for-of loop uses: entry i of the
\* array as it is now, then entry i + 1, until i is beyond its length.
NextEntry(i) == i + 1

RECURSIVE postOpened(_, _)
\* Channel.post('opened', this), from entry i on.
postOpened(q, i) ==
    IF i > Len(q.channel.listeners) THEN q
    ELSE postOpened(opened(q, q.channel.listeners[i]), NextEntry(i))

\* Connection.post('connected', this): Channel.connected calls createChannel
\* on connection.conn, and its callback is pending.
postConnected(q) ==
    IF IndexOf(q.connection.listeners, "channel") = 0 THEN q
    ELSE [q EXCEPT !.broker.creating = @ \cup {q.connection.conn}]

\* Connection.post('disconnected', this): Channel.disconnected.
postDisconnected(q) ==
    IF IndexOf(q.connection.listeners, "channel") = 0 THEN q
    ELSE [q EXCEPT !.channel.ch = 0]

\* Channel.open(f) for a new operation (messageAdd, queueAddIf).
MessageAdd ==
    /\ issued < MaxOps
    /\ issued' = issued + 1
    /\ QioCommit(IF channel.ch # 0
                 THEN [Qio EXCEPT !.ran = Append(@, issued + 1)]
                 ELSE listenerAdd(Qio, "channel", OneShot(issued + 1)))

\* Channel.listen(f) for a new receiver (receiverAdd, consumerAdd).
ReceiverAdd ==
    /\ issued < MaxOps
    /\ issued' = issued + 1
    /\ QioCommit(listenerAdd(IF channel.ch # 0
                             THEN [Qio EXCEPT !.ran = Append(@, issued + 1)]
                             ELSE Qio,
                             "channel", Lasting(issued + 1)))

\* channel.listenerAdd(listener) called by the client with a listener of
\* its own.
ChannelListenerAdd ==
    /\ issued < MaxOps
    /\ issued' = issued + 1
    /\ QioCommit(listenerAdd(Qio, "channel", Own(issued + 1)))

\* channel.listenerDel(listener) called by the client with a listener it
\* has added.
ChannelListenerDel(listener) ==
    /\ IndexOf(channel.listeners, listener) # 0
    /\ ~listener.f
    /\ QioCommit(listenerDel(Qio, "channel", listener))
    /\ UNCHANGED issued

\* The callback of amqp.connect for attempt a: with an error the retry
\* timer is set while count is below retryCount; else conn is set,
\* connected is posted and the handlers of the connection are installed.
Connected(a, err) ==
    /\ a \in attempts
    /\ a.at = "connect"
    /\ QioCommit(
         LET q1 == [Qio EXCEPT !.attempts = @ \ {a}]
         IN  IF err
             THEN IF a.count < RetryCount
                  THEN [q1 EXCEPT !.attempts = @ \cup {[a EXCEPT !.at = "timer"]}]
                  ELSE q1
             ELSE postConnected([q1 EXCEPT !.broker.conns = @ \cup {a.n},
                                           !.connection.conn = a.n]))
    /\ UNCHANGED issued

\* The retry timer of attempt a: connect(count + 1).
Retry(a) ==
    /\ a \in attempts
    /\ a.at = "timer"
    /\ QioCommit(connect([Qio EXCEPT !.attempts = @ \ {a}], a.count + 1))
    /\ UNCHANGED issued

\* The callback of createChannel on connection c: with an error, error is
\* posted, which no listener of the channel implements; else ch is set,
\* opened is posted and the handlers of the channel are installed.
ChannelCreated(c, err) ==
    /\ c \in broker.creating
    /\ err \/ c \in broker.conns
    /\ QioCommit(
         LET q1 == [Qio EXCEPT !.broker.creating = @ \ {c}]
         IN  IF err THEN q1
             ELSE postOpened([q1 EXCEPT !.channel.ch = c,
                                        !.broker.chans = @ \cup {c}], 1))
    /\ UNCHANGED issued

\* conn.on('error') of connection c: error is posted, which the channel
\* does not implement, and conn is set to null.
ConnError(c) ==
    /\ c \in broker.conns
    /\ connection.conn # 0
    /\ QioCommit([Qio EXCEPT !.connection.conn = 0])
    /\ UNCHANGED issued

\* conn.on('close') of connection c: disconnected is posted, conn is set to
\* null and, with listeners, listeningStarted is called.
ConnClose(c) ==
    /\ c \in broker.conns
    /\ QioCommit(
         LET q1 == postDisconnected([Qio EXCEPT !.broker.conns = @ \ {c}])
             q2 == [q1 EXCEPT !.connection.conn = 0]
         IN  IF Len(q2.connection.listeners) > 0
             THEN listeningStarted(q2, "connection")
             ELSE q2)
    /\ UNCHANGED issued

\* ch.on('close') of the channel created on connection c: closed is posted,
\* which no listener of the channel implements, and ch is set to null.
ChannelClose(c) ==
    /\ c \in broker.chans
    /\ QioCommit([Qio EXCEPT !.broker.chans = @ \ {c}, !.channel.ch = 0])
    /\ UNCHANGED issued

InitQueue ==
    /\ cmds = [i \in CmdIds |-> subshell]
    /\ fl = FlattenIdle
    /\ CtxIdle
    /\ ShellIdle
    /\ NotifierIdle
    /\ CallIdle
    /\ QioIdle

NextQueue ==
    \/ MessageAdd
    \/ ReceiverAdd
    \/ ChannelListenerAdd
    \/ \E l \in Range(channel.listeners) : ChannelListenerDel(l)
    \/ \E a \in attempts, err \in BOOLEAN : Connected(a, err)
    \/ \E a \in attempts : Retry(a)
    \/ \E c \in broker.creating, err \in BOOLEAN : ChannelCreated(c, err)
    \/ \E c \in broker.conns : ConnError(c)
    \/ \E c \in broker.conns : ConnClose(c)
    \/ \E c \in broker.chans : ChannelClose(c)

SpecQueue == InitQueue /\ [][NextQueue]_vars

\* Operation n waits on the channel: the one-shot listener open registered
\* for it is among the channel's listeners.
Waiting(n) == OneShot(n) \in Range(channel.listeners)

\* The step in which the channel opens: ch is set to a new broker channel
\* and opened is posted.
Opens == channel.ch' # 0 /\ channel.ch' # channel.ch

\* C39: when the channel opens, every operation that waits on it has been
\* run exactly once by the end of the opened notification, however many
\* operations wait: none is skipped because another one removed its
\* listener during the notification.
C39_WaitingAllRun ==
    [][Opens => \A n \in 1..issued : Waiting(n) => Times(ran', n) = 1]_vars

\* C40: at no time is more than one connect attempt of the connection in
\* progress (its amqp.connect callback or its retry timer pending), and at
\* no time is more than one connection to the broker live.
C40_OneAttemptOneConnection ==
    /\ Cardinality(attempts) <= 1
    /\ Cardinality(broker.conns) <= 1

====
